---- MODULE Spec2Model ----
(***************************************************************************)
(* Feature derivation and scenario scoring of the middle-over strike-rate  *)
(* optimizer: bowler-type and venue classification (analyze_venues.py),    *)
(* recent form (calculate_batter_recent_form.py), run rate                 *)
(* (calculate_runrate.py) and the batting-order scorer (backend/main.py).  *)
(*                                                                         *)
(* Python floats are IEEE-754 binary64.  They are modelled bit-exactly: a  *)
(* value is a sign, a 53-bit significand and a binary exponent, and every  *)
(* operation rounds its exact result to nearest, ties to even.             *)
(***************************************************************************)
EXTENDS Integers, Sequences, FiniteSets, TLC

(***************************************************************************)
(* Natural numbers of any size: a sequence of limbs, least significant     *)
(* first, without a leading zero limb.  TLC's integers are 32 bits wide,   *)
(* so a limb holds LimbBits bits and a limb product still fits.            *)
(***************************************************************************)
LimbBits == 14
Base == 2 ^ LimbBits

\* The significand width of a binary64 float.
MantBits == 53

\* The element of a set of one element: The({F(v) : v \in {e}}) is F(e),
\* with e named v in F.
The(S) == CHOOSE v \in S : TRUE

\* The greatest element of a non-empty set of integers.
MaxOf(S) == CHOOSE i \in S : \A j \in S : j <= i

\* a without its leading zero limbs.
BigNorm(a) ==
    LET nz == {i \in 1..Len(a) : a[i] # 0}
    IN  IF nz = {} THEN << >> ELSE SubSeq(a, 1, MaxOf(nz))

RECURSIVE BigFromInt(_)
BigFromInt(n) ==
    IF n = 0 THEN << >> ELSE <<n % Base>> \o BigFromInt(n \div Base)

RECURSIVE BigToInt(_)
BigToInt(a) ==
    IF Len(a) = 0 THEN 0 ELSE a[1] + Base * BigToInt(Tail(a))

Limb(a, i) == IF i <= Len(a) THEN a[i] ELSE 0

\* -1, 0 or 1 as a < b, a = b or a > b: the most significant limb that
\* differs decides.
BigCmp(a, b) ==
    IF Len(a) > Len(b) THEN 1
    ELSE IF Len(a) < Len(b) THEN -1
    ELSE LET df == {i \in 1..Len(a) : a[i] # b[i]}
         IN  IF df = {} THEN 0
             ELSE IF a[MaxOf(df)] > b[MaxOf(df)] THEN 1 ELSE -1

RECURSIVE BigAddFrom(_, _, _, _)
BigAddFrom(a, b, i, c) ==
    IF i > Len(a) /\ i > Len(b)
    THEN (IF c = 0 THEN << >> ELSE <<c>>)
    ELSE LET s == Limb(a, i) + Limb(b, i) + c
         IN  <<s % Base>> \o BigAddFrom(a, b, i + 1, s \div Base)

BigAdd(a, b) == BigAddFrom(a, b, 1, 0)

RECURSIVE BigSubFrom(_, _, _, _)
BigSubFrom(a, b, i, w) ==
    IF i > Len(a) THEN << >>
    ELSE LET d == a[i] - Limb(b, i) - w
         IN  IF d < 0 THEN <<d + Base>> \o BigSubFrom(a, b, i + 1, 1)
             ELSE <<d>> \o BigSubFrom(a, b, i + 1, 0)

\* a - b, for a >= b.
BigSub(a, b) == BigNorm(BigSubFrom(a, b, 1, 0))

RECURSIVE BigMulSmallFrom(_, _, _, _)
BigMulSmallFrom(a, k, i, c) ==
    IF i > Len(a) THEN (IF c = 0 THEN << >> ELSE <<c>>)
    ELSE LET p == a[i] * k + c
         IN  <<p % Base>> \o BigMulSmallFrom(a, k, i + 1, p \div Base)

\* a * k, for 0 <= k < Base.
BigMulSmall(a, k) == IF k = 0 THEN << >> ELSE BigMulSmallFrom(a, k, 1, 0)

BigShiftLimbs(a, n) ==
    IF Len(a) = 0 THEN a ELSE [i \in 1..n |-> 0] \o a

RECURSIVE BigMul(_, _)
BigMul(a, b) ==
    IF Len(b) = 0 THEN << >>
    ELSE BigAdd(BigMulSmall(a, b[1]), BigShiftLimbs(BigMul(a, Tail(b)), 1))

\* a * 2^k.
BigShl(a, k) ==
    BigShiftLimbs(BigMulSmall(a, 2 ^ (k % LimbBits)), k \div LimbBits)

\* The number of bits of a limb n: 0 for 0, else k with 2^(k-1) <= n < 2^k.
BitLen(n) == Cardinality({k \in 0..(LimbBits - 1) : 2 ^ k <= n})

BigBitLen(a) ==
    IF Len(a) = 0 THEN 0 ELSE LimbBits * (Len(a) - 1) + BitLen(a[Len(a)])

BigIsOdd(a) == Len(a) > 0 /\ a[1] % 2 = 1

BigOne == <<1>>

\* floor(a / 2^k).
BigShr(a, k) ==
    LET w == k \div LimbBits
        t == k % LimbBits
        b == IF w >= Len(a) THEN << >> ELSE SubSeq(a, w + 1, Len(a))
    IN  BigNorm([i \in 1..Len(b) |->
                    (b[i] \div 2 ^ t) + (Limb(b, i + 1) % 2 ^ t) * 2 ^ (LimbBits - t)])

\* Bit i of a (bit 0 is the least significant).
BigBit(a, i) == (Limb(a, i \div LimbBits + 1) \div 2 ^ (i % LimbBits)) % 2

\* Whether a mod 2^n is not zero.
BigLowBits(a, n) ==
    \/ \E j \in 1..(n \div LimbBits) : Limb(a, j) # 0
    \/ Limb(a, n \div LimbBits + 1) % 2 ^ (n % LimbBits) # 0

\* a / 2^k rounded to the nearest integer, ties to even (k >= 1).
BigRoundShr(a, k) ==
    LET q  == BigShr(a, k)
        up == BigBit(a, k - 1) = 1 /\ (BigLowBits(a, k - 1) \/ BigIsOdd(q))
    IN  IF up THEN BigAdd(q, BigOne) ELSE q

(***************************************************************************)
(* Long division in base Base.  DivDigit: for a divisor d whose top limb   *)
(* is at least Base / 2 and rem < d * Base, the digit q = rem \div d and   *)
(* rem - q * d; the estimate from the leading limbs is at most 2 too big.  *)
(***************************************************************************)
DivDigit(rem, d) ==
    LET n   == Len(d)
        top == Limb(rem, n + 1) * Base + Limb(rem, n)
        est == top \div d[n]
        q0  == IF est > Base - 1 THEN Base - 1 ELSE est
        q1  == IF BigCmp(BigMulSmall(d, q0), rem) > 0 THEN q0 - 1 ELSE q0
        q2  == IF BigCmp(BigMulSmall(d, q1), rem) > 0 THEN q1 - 1 ELSE q1
    IN  <<q2, BigSub(rem, BigMulSmall(d, q2))>>

\* The limbs a[i], ..., a[1] brought down one at a time.
RECURSIVE BigDivFrom(_, _, _, _, _)
BigDivFrom(a, d, i, rem, q) ==
    IF i = 0 THEN <<BigNorm(q), rem>>
    ELSE LET qr == DivDigit(BigNorm(<<a[i]>> \o rem), d)
             nq == <<qr[1]>> \o q
         IN  \* the step's results are computed before the next step is taken
             IF Len(nq) > 0 /\ Len(qr[2]) >= 0
             THEN BigDivFrom(a, d, i - 1, qr[2], nq)
             ELSE << >>

\* <<a \div d, r>> with r = 0 exactly when d divides a (d > 0).  Both are
\* scaled so that the divisor's top limb is at least Base / 2; the leading
\* limbs of the dividend, fewer than the divisor has, start as the remainder.
BigDivMod(a, d) ==
    LET sh == LimbBits - BitLen(d[Len(d)])
        an == BigShl(a, sh)
        dn == BigShl(d, sh)
        i0 == Len(an) - Len(dn) + 1
    IN  IF i0 <= 0 THEN <<<< >>, an>>
        ELSE BigDivFrom(an, dn, i0, SubSeq(an, i0 + 1, Len(an)), << >>)

(***************************************************************************)
(* A float: s is the sign (1 for negative), m the significand (0, or       *)
(* 2^52 <= m < 2^53) and e the exponent; its value is (-1)^s * m * 2^e.    *)
(***************************************************************************)
FZero == [s |-> 0, m |-> << >>, e |-> 0]

FIsZero(x) == Len(x.m) = 0

\* The float nearest to num * 2^e0 (num > 0), ties to even.
RoundInt(s, num, e0) ==
    The({IF k <= 0 THEN [s |-> s, m |-> BigShl(num, -k), e |-> e0 + k]
         ELSE The({IF BigBitLen(q) > MantBits
                   THEN [s |-> s, m |-> BigShl(BigOne, MantBits - 1), e |-> e0 + k + 1]
                   ELSE [s |-> s, m |-> q, e |-> e0 + k] :
                      q \in {BigRoundShr(num, k)}}) :
            k \in {BigBitLen(num) - MantBits}})

\* The float nearest to num / den * 2^e0 (num, den > 0), ties to even: the
\* quotient to MantBits + 2 or + 3 bits, and one more bit that tells whether
\* the division left a remainder.
RoundRatio(s, num, den, e0) ==
    The({The({IF Len(qr[2]) = 0
              THEN RoundInt(s, BigShl(qr[1], 1), e0 - t - 1)
              ELSE RoundInt(s, BigAdd(BigShl(qr[1], 1), BigOne), e0 - t - 1) :
                 qr \in {IF t >= 0 THEN BigDivMod(BigShl(num, t), den)
                         ELSE BigDivMod(num, BigShl(den, -t))}}) :
            t \in {MantBits + 2 + BigBitLen(den) - BigBitLen(num)}})

\* The float nearest to the rational n / d (d > 0): how Python reads a
\* decimal literal such as 0.85 (= 85 / 100), and int / int true division.
FRat(n, d) ==
    IF n = 0 THEN FZero
    ELSE IF n < 0 THEN RoundRatio(1, BigFromInt(-n), BigFromInt(d), 0)
    ELSE RoundRatio(0, BigFromInt(n), BigFromInt(d), 0)

\* float(n) for an int n.
FInt(n) ==
    IF n = 0 THEN FZero
    ELSE IF n < 0 THEN RoundInt(1, BigFromInt(-n), 0)
    ELSE RoundInt(0, BigFromInt(n), 0)

FNeg(x) == IF FIsZero(x) THEN x ELSE [x EXCEPT !.s = 1 - x.s]

\* Comparison of magnitudes: -1, 0, 1.
FCmpAbs(x, y) ==
    IF FIsZero(x) THEN (IF FIsZero(y) THEN 0 ELSE -1)
    ELSE IF FIsZero(y) THEN 1
    ELSE IF x.e > y.e THEN 1
    ELSE IF x.e < y.e THEN -1
    ELSE BigCmp(x.m, y.m)

FCmp(x, y) ==
    IF x.s = 0 /\ y.s = 0 THEN FCmpAbs(x, y)
    ELSE IF x.s = 1 /\ y.s = 1 THEN FCmpAbs(y, x)
    ELSE IF FIsZero(x) /\ FIsZero(y) THEN 0
    ELSE IF x.s = 1 THEN -1 ELSE 1

FLt(x, y) == FCmp(x, y) < 0
FGt(x, y) == FCmp(x, y) > 0
FGe(x, y) == FCmp(x, y) >= 0
FEq(x, y) == FCmp(x, y) = 0

\* x / y for y # 0.
FDiv(x, y) ==
    IF FIsZero(x) THEN FZero
    ELSE RoundRatio((x.s + y.s) % 2, x.m, y.m, x.e - y.e)

\* x * y.
FMul(x, y) ==
    IF FIsZero(x) \/ FIsZero(y) THEN FZero
    ELSE RoundInt((x.s + y.s) % 2, BigMul(x.m, y.m), x.e + y.e)

\* The exact sum of two magnitudes a * 2^ea + b * 2^eb, rounded.
FAddAbs(s, x, y) ==
    LET hi == IF x.e >= y.e THEN x ELSE y
        lo == IF x.e >= y.e THEN y ELSE x
    IN  IF hi.e - lo.e > MantBits + 2 THEN [hi EXCEPT !.s = s]
        ELSE RoundInt(s, BigAdd(BigShl(hi.m, hi.e - lo.e), lo.m), lo.e)

\* |x| - |y| for |x| > |y|, rounded, with sign s.
FSubAbs(s, x, y) ==
    IF x.e - y.e > MantBits + 2 THEN [x EXCEPT !.s = s]
    ELSE RoundInt(s, BigSub(BigShl(x.m, x.e - y.e), y.m), y.e)

\* x + y.
FAdd(x, y) ==
    IF FIsZero(x) THEN y
    ELSE IF FIsZero(y) THEN x
    ELSE IF x.s = y.s THEN FAddAbs(x.s, x, y)
    ELSE LET c == FCmpAbs(x, y)
         IN  IF c = 0 THEN FZero
             ELSE IF c > 0 THEN FSubAbs(x.s, x, y)
             ELSE FSubAbs(y.s, y, x)

\* x - y.
FSub(x, y) == FAdd(x, FNeg(y))

\* |x| * 100 rounded to the nearest integer, ties to even: the exact
\* product, rounded once.
FHundredths(x) ==
    IF FIsZero(x) THEN << >>
    ELSE IF x.e >= 0 THEN BigShl(BigMulSmall(x.m, 100), x.e)
    ELSE BigRoundShr(BigMulSmall(x.m, 100), -x.e)

\* Python's round(x, 2) on a float: the decimal nearest to the exact value
\* of x (ties to even), converted back to the nearest float.
PyRound2(x) ==
    LET h == FHundredths(x)
    IN  IF Len(h) = 0 THEN FZero
        ELSE RoundRatio(x.s, h, BigFromInt(100), 0)

\* rint(x): the integer nearest to x, ties to even, as a float.
FRint(x) ==
    IF FIsZero(x) \/ x.e >= 0 THEN x
    ELSE LET n == BigRoundShr(x.m, -x.e)
         IN  IF Len(n) = 0 THEN FZero ELSE RoundInt(x.s, n, 0)

\* numpy's round(x, 2) on a float64: rint(x * 100) / 100.
NpRound2(x) == FDiv(FRint(FMul(x, FInt(100))), FInt(100))

\* An arithmetic expression of the code as a term: a float value, an
\* integer or decimal literal, or an operation on terms.
XVal(v) == [op |-> "val", v |-> v]
XInt(n) == [op |-> "int", n |-> n]
XRat(n, d) == [op |-> "rat", n |-> n, d |-> d]
XMul(a, b) == [op |-> "mul", a |-> a, b |-> b]
XDiv(a, b) == [op |-> "div", a |-> a, b |-> b]
XAdd(a, b) == [op |-> "add", a |-> a, b |-> b]
XSub(a, b) == [op |-> "sub", a |-> a, b |-> b]
XRint(a) == [op |-> "rint", a |-> a]
XNpRound2(a) == XDiv(XRint(XMul(a, XInt(100))), XInt(100))

\* The float a term evaluates to, each operation rounded as it is done.
RECURSIVE FEval(_)
FEval(x) ==
    CASE x.op = "val" -> x.v
      [] x.op = "int" -> FInt(x.n)
      [] x.op = "rat" -> FRat(x.n, x.d)
      [] x.op = "mul" -> FMul(FEval(x.a), FEval(x.b))
      [] x.op = "div" -> FDiv(FEval(x.a), FEval(x.b))
      [] x.op = "add" -> FAdd(FEval(x.a), FEval(x.b))
      [] x.op = "sub" -> FSub(FEval(x.a), FEval(x.b))
      [] x.op = "rint" -> FRint(FEval(x.a))

(***************************************************************************)
(* Bowler-type classification: analyze_venues.py, get_bowling_category.    *)
(* A Python str is a sequence of one-character strings, so that lower()    *)
(* and the substring test `kw in bt_lower` are computed, not assumed.      *)
(***************************************************************************)
UpperCase ==
    <<"A", "B", "C", "D", "E", "F", "G", "H", "I", "J", "K", "L", "M",
      "N", "O", "P", "Q", "R", "S", "T", "U", "V", "W", "X", "Y", "Z">>
LowerCase ==
    <<"a", "b", "c", "d", "e", "f", "g", "h", "i", "j", "k", "l", "m",
      "n", "o", "p", "q", "r", "s", "t", "u", "v", "w", "x", "y", "z">>

LowerChar(c) ==
    IF \E i \in 1..Len(UpperCase) : UpperCase[i] = c
    THEN LowerCase[CHOOSE i \in 1..Len(UpperCase) : UpperCase[i] = c]
    ELSE c

UpperChar(c) ==
    IF \E i \in 1..Len(LowerCase) : LowerCase[i] = c
    THEN UpperCase[CHOOSE i \in 1..Len(LowerCase) : LowerCase[i] = c]
    ELSE c

\* str.lower() and str.upper().
StrLower(str) == [i \in 1..Len(str) |-> LowerChar(str[i])]
StrUpper(str) == [i \in 1..Len(str) |-> UpperChar(str[i])]

\* `needle in hay` for two strs.
StrContains(hay, needle) ==
    \E i \in 1..(Len(hay) - Len(needle) + 1) :
        SubSeq(hay, i, i + Len(needle) - 1) = needle

SPIN_KEYWORDS ==
    {<<"s", "p", "i", "n">>,
     <<"o", "r", "t", "h", "o", "d", "o", "x">>,
     <<"l", "e", "g", "b", "r", "e", "a", "k">>,
     <<"o", "f", "f", "b", "r", "e", "a", "k">>,
     <<"g", "o", "o", "g", "l", "y">>,
     <<"s", "l", "o", "w">>,
     <<"w", "r", "i", "s", "t", " ", "s", "p", "i", "n">>,
     <<"c", "h", "i", "n", "a", "m", "a", "n">>}

PACE_KEYWORDS ==
    {<<"f", "a", "s", "t">>,
     <<"m", "e", "d", "i", "u", "m">>,
     <<"s", "e", "a", "m">>,
     <<"s", "w", "i", "n", "g">>}

OverrideMediumLegbreak ==
    <<"R", "i", "g", "h", "t", " ", "a", "r", "m", " ", "M", "e", "d", "i",
      "u", "m", ",", " ", "L", "e", "g", "b", "r", "e", "a", "k">>
OverrideMediumOffbreak ==
    <<"R", "i", "g", "h", "t", " ", "a", "r", "m", " ", "M", "e", "d", "i",
      "u", "m", ",", " ", "R", "i", "g", "h", "t", " ", "a", "r", "m", " ",
      "O", "f", "f", "b", "r", "e", "a", "k">>
OverrideMediumOrthodox ==
    <<"L", "e", "f", "t", " ", "a", "r", "m", " ", "M", "e", "d", "i", "u",
      "m", ",", " ", "S", "l", "o", "w", " ", "L", "e", "f", "t", " ", "a",
      "r", "m", " ", "O", "r", "t", "h", "o", "d", "o", "x">>
OverrideFastMediumOrthodox ==
    <<"L", "e", "f", "t", " ", "a", "r", "m", " ", "F", "a", "s", "t", " ",
      "m", "e", "d", "i", "u", "m", ",", " ", "S", "l", "o", "w", " ", "L",
      "e", "f", "t", " ", "a", "r", "m", " ", "O", "r", "t", "h", "o", "d",
      "o", "x">>

SPIN_OVERRIDES ==
    {OverrideMediumLegbreak, OverrideMediumOffbreak,
     OverrideMediumOrthodox, OverrideFastMediumOrthodox}

PACE_OVERRIDES == {}

StrNA ==
    <<"N", "/", "A">>
StrUmpire ==
    <<"|", " ", "U", "m", "p", "i", "r", "e", " ", "=", " ", "T", "r", "u",
      "e">>
StrEmpty == << >>

\* get_bowling_category testing the pace keywords first.
get_bowling_category_pace_first(bt) ==
    IF Len(bt) = 0 \/ bt \in {StrNA, StrEmpty, StrUmpire} THEN "Unknown"
    ELSE IF bt \in SPIN_OVERRIDES THEN "Spin"
    ELSE IF bt \in PACE_OVERRIDES THEN "Pace"
    ELSE IF \E kw \in PACE_KEYWORDS : StrContains(StrLower(bt), kw)
    THEN "Pace"
    ELSE IF \E kw \in SPIN_KEYWORDS : StrContains(StrLower(bt), kw)
    THEN "Spin"
    ELSE "Unknown"

get_bowling_category(bt) ==
    IF Len(bt) = 0 \/ bt \in {StrNA, StrEmpty, StrUmpire}
    THEN "Unknown"
    ELSE IF bt \in SPIN_OVERRIDES THEN "Spin"
    ELSE IF bt \in PACE_OVERRIDES THEN "Pace"
    ELSE LET bt_lower == StrLower(bt)
             is_spin == \E kw \in SPIN_KEYWORDS : StrContains(bt_lower, kw)
             is_pace == \E kw \in PACE_KEYWORDS : StrContains(bt_lower, kw)
         IN  IF is_spin /\ ~is_pace THEN "Spin"
             ELSE IF is_pace /\ ~is_spin THEN "Pace"
             ELSE IF is_pace /\ is_spin THEN "Spin"
             ELSE "Unknown"

(***************************************************************************)
(* Venue classification: analyze_venues.py, classify_venue.                *)
(***************************************************************************)

\* The sample-size floor of classify_venue.
MinMatches == 3

\* The literals 0.85 and 1.15 of the 15% band, as Python reads them.
SpinRatio == FRat(85, 100)
PaceRatio == FRat(115, 100)

\* What a call that raises ZeroDivisionError yields.
ZeroDivisionError == "ZeroDivisionError"

VenueLabels == {"Spin Friendly", "Pace Friendly", "Neutral"}

\* The band test on ratio = spin_avg / pace_avg (lines 87-92); a float
\* division by zero raises.
RatioLabel(spin_avg, pace_avg) ==
    IF FIsZero(pace_avg) THEN ZeroDivisionError
    ELSE LET ratio == FDiv(spin_avg, pace_avg)
         IN  IF FLt(ratio, SpinRatio) THEN "Spin Friendly"
             ELSE IF FGt(ratio, PaceRatio) THEN "Pace Friendly"
             ELSE "Neutral"

\* classify_venue with the sample-size floor one match too low.
classify_venue_low_floor(pace_balls, pace_runs, pace_wickets, spin_balls, spin_runs, spin_wickets, match_count) ==
    IF match_count < MinMatches - 1 THEN "Neutral"
    ELSE IF pace_wickets = 0 /\ spin_wickets = 0 THEN "Neutral"
    ELSE IF pace_wickets = 0 THEN "Spin Friendly"
    ELSE IF spin_wickets = 0 THEN "Pace Friendly"
    ELSE RatioLabel(FRat(spin_runs, spin_wickets),
                    FRat(pace_runs, pace_wickets))

\* classify_venue crediting the type that took no wicket.
classify_venue_swapped(pace_balls, pace_runs, pace_wickets, spin_balls, spin_runs, spin_wickets, match_count) ==
    IF match_count < MinMatches THEN "Neutral"
    ELSE IF pace_wickets = 0 /\ spin_wickets = 0 THEN "Neutral"
    ELSE IF pace_wickets = 0 THEN "Pace Friendly"
    ELSE IF spin_wickets = 0 THEN "Spin Friendly"
    ELSE RatioLabel(FRat(spin_runs, spin_wickets),
                    FRat(pace_runs, pace_wickets))

\* classify_venue without the return for a venue where only pace takes
\* wickets.
classify_venue_no_pace_return(pace_balls, pace_runs, pace_wickets, spin_balls, spin_runs, spin_wickets, match_count) ==
    IF match_count < MinMatches THEN "Neutral"
    ELSE IF pace_wickets = 0 /\ spin_wickets = 0 THEN "Neutral"
    ELSE IF pace_wickets = 0 THEN "Spin Friendly"
    ELSE IF spin_wickets = 0 THEN "Neutral"
    ELSE RatioLabel(FRat(spin_runs, spin_wickets),
                    FRat(pace_runs, pace_wickets))

classify_venue(pace_balls, pace_runs, pace_wickets, spin_balls, spin_runs, spin_wickets, match_count) ==
    IF match_count < MinMatches THEN "Neutral"
    ELSE IF pace_wickets = 0 /\ spin_wickets = 0 THEN "Neutral"
    \* the averages of a type without wickets are float('inf'), never used
    ELSE IF pace_wickets = 0 THEN "Spin Friendly"
    ELSE IF spin_wickets = 0 THEN "Pace Friendly"
    ELSE RatioLabel(FRat(spin_runs, spin_wickets),
                    FRat(pace_runs, pace_wickets))

(***************************************************************************)
(* Run rate: calculate_runrate.py, calculate_crr.  The arguments are CSV   *)
(* fields, strings, as main passes them (an int argument n behaves as the  *)
(* field str(n)); int() and float() parse them or raise ValueError.        *)
(***************************************************************************)
Digits == <<"0", "1", "2", "3", "4", "5", "6", "7", "8", "9">>

IsDigit(c) == \E d \in 1..10 : Digits[d] = c

DigitVal(c) == (CHOOSE d \in 1..10 : Digits[d] = c) - 1

RECURSIVE ParseDigits(_, _)
ParseDigits(str, acc) ==
    IF Len(str) = 0 THEN acc
    ELSE ParseDigits(Tail(str), 10 * acc + DigitVal(Head(str)))

\* str(n) of an int n >= 0.
RECURSIVE IntStr(_)
IntStr(n) ==
    IF n < 10 THEN <<Digits[n + 1]>>
    ELSE IntStr(n \div 10) \o <<Digits[(n % 10) + 1]>>

ValueError == "ValueError"

\* int(str): an optional sign and decimal digits; anything else raises.
PyInt(str) ==
    LET signed == Len(str) > 0 /\ Head(str) \in {"-", "+"}
        digits == IF signed THEN Tail(str) ELSE str
    IN  IF Len(digits) = 0 \/ \E i \in 1..Len(digits) : ~IsDigit(digits[i])
        THEN [raise |-> ValueError]
        ELSE [value |-> IF signed /\ Head(str) = "-"
                        THEN 0 - ParseDigits(digits, 0)
                        ELSE ParseDigits(digits, 0)]

\* float(str) of a field written as an integer.
PyFloat(str) ==
    LET n == PyInt(str)
    IN  IF "raise" \in DOMAIN n THEN n ELSE [value |-> FInt(n.value)]

Raises(r) == "raise" \in DOMAIN r

calculate_crr_per_ball(over, ball, cumulative_runs) ==
    LET o == PyInt(over)
        b == PyInt(ball)
        c == PyFloat(cumulative_runs)
    IN  IF Raises(o) THEN o
        ELSE IF Raises(b) THEN b
        ELSE LET total_balls == o.value * 6 + b.value
             IN  IF total_balls = 0 THEN [value |-> FZero]
                 ELSE IF Raises(c) THEN c
                 ELSE [value |-> PyRound2(FDiv(c.value, FInt(total_balls)))]

calculate_crr(over, ball, cumulative_runs) ==
    LET o == PyInt(over)
        b == PyInt(ball)
        c == PyFloat(cumulative_runs)
    IN  IF Raises(o) THEN o
        ELSE IF Raises(b) THEN b
        ELSE LET total_balls == o.value * 6 + b.value
                 overs_bowled == FDiv(FInt(total_balls), FInt(6))
             IN  IF total_balls = 0 THEN [value |-> FZero]
                 ELSE IF Raises(c) THEN c
                 ELSE [value |-> PyRound2(FDiv(c.value, overs_bowled))]

(***************************************************************************)
(* Recent form: calculate_batter_recent_form.py.  File ids and dates are   *)
(* strings compared as Python compares str, character by character.        *)
(***************************************************************************)
CharsByCode ==
    <<" ", "+", ",", "-", ".", "/">> \o Digits \o <<":">> \o UpperCase
        \o <<"_">> \o LowerCase

CharCode(c) == CHOOSE i \in 1..Len(CharsByCode) : CharsByCode[i] = c

\* a < b for two str: decided at the first position where they differ, or
\* by the lengths when one is a prefix of the other.
StrLess(a, b) ==
    LET n    == IF Len(a) < Len(b) THEN Len(a) ELSE Len(b)
        diff == {i \in 1..n : a[i] # b[i]}
        at   == CHOOSE i \in diff : \A j \in diff : i <= j
    IN  IF diff = {} THEN Len(a) < Len(b)
        ELSE CharCode(a[at]) < CharCode(b[at])

\* (x[0], x[1]) < (y[0], y[1]) for two history entries (date, file_id, ...).
KeyLess(x, y) ==
    StrLess(x[1], y[1]) \/ (x[1] = y[1] /\ StrLess(x[2], y[2]))

\* A stable sort by the date alone: innings of one date stay in the order
\* of their first rows in the file.
SortHistory_by_date(history) ==
    LET n == Len(history)
        place(i) ==
            1 + Cardinality({j \in 1..n : StrLess(history[j][1], history[i][1])})
              + Cardinality({j \in 1..(i - 1) : history[j][1] = history[i][1]})
    IN  [p \in 1..n |-> history[CHOOSE i \in 1..n : place(i) = p]]

\* The histories left in the order of innings_stats.items().
SortHistory_unsorted(history) == history

\* list.sort(key=lambda x: (x[0], x[1])): a stable sort.  The entry at
\* position i goes after the entries with a smaller key and after the
\* earlier entries with an equal key.
SortHistory(history) ==
    LET n == Len(history)
        KeyEq(x, y) == x[1] = y[1] /\ x[2] = y[2]
        place(i) ==
            1 + Cardinality({j \in 1..n : KeyLess(history[j], history[i])})
              + Cardinality({j \in 1..(i - 1) : KeyEq(history[j], history[i])})
    IN  [p \in 1..n |-> history[CHOOSE i \in 1..n : place(i) = p]]

\* A dict: its keys in insertion order and the value of each key.
EmptyDict == [keys |-> << >>, val |-> << >>]

DictHas(d, k) == k \in DOMAIN d.val

DictSet(d, k, v) ==
    [keys |-> IF DictHas(d, k) THEN d.keys ELSE Append(d.keys, k),
     val  |-> [x \in DOMAIN d.val \cup {k} |-> IF x = k THEN v ELSE d.val[x]]]

\* defaultdict(lambda: {'runs': 0, 'balls': 0, 'date': ''})
NewInnings == [runs |-> 0, balls |-> 0, date |-> << >>]

\* batter_history: every innings appended to its batter's list, in the
\* order of innings_stats.items() (batters in the order of their first
\* innings), then each list sorted.
BuiltHistories(stats) ==
    LET keys   == stats.keys
        firsts == {i \in 1..Len(keys) :
                      \A j \in 1..(i - 1) : keys[j][2] # keys[i][2]}
        batters == [p \in 1..Cardinality(firsts) |->
                       keys[CHOOSE i \in firsts :
                               Cardinality({j \in firsts : j < i}) = p - 1][2]]
        mine(b) == SelectSeq(keys, LAMBDA k : k[2] = b)
        entry(k) == <<stats.val[k].date, k[1], stats.val[k].runs,
                      stats.val[k].balls>>
    IN  [keys |-> batters,
         val  |-> [b \in {keys[i][2] : i \in firsts} |->
                      [i \in 1..Len(mine(b)) |-> entry(mine(b)[i])]]]

SortedHistories(stats) ==
    LET built == BuiltHistories(stats)
    IN  [built EXCEPT !.val = [b \in DOMAIN built.val |->
                                  SortHistory(built.val[b])]]

WindowSize == 5

RECURSIVE SumField(_, _)
SumField(entries, f) ==
    IF Len(entries) = 0 THEN 0
    ELSE Head(entries)[f] + SumField(Tail(entries), f)

\* history[max(0, i - 5): i + 1], i counted from 0.
Last5WindowWithCurrent(history, i) ==
    SubSeq(history, (IF i - WindowSize > 0 THEN i - WindowSize ELSE 0) + 1,
           i + 1)

\* prev = history[max(0, i - 5): i], i counted from 0.
Last5Window(history, i) ==
    SubSeq(history, (IF i - WindowSize > 0 THEN i - WindowSize ELSE 0) + 1, i)

\* The body of the loop over enumerate(history): round(sr, 2).
Last5Value(history, i) ==
    LET prev        == Last5Window(history, i)
        total_runs  == SumField(prev, 3)
        total_balls == SumField(prev, 4)
        sr == IF Len(prev) > 0
              THEN IF total_balls > 0
                   THEN FMul(FRat(total_runs, total_balls), FInt(100))
                   ELSE FZero
              ELSE FZero
    IN  PyRound2(sr)

\* last5_sr after the loops over batter_history.items() and each history.
Last5Map(histories) ==
    LET hist(b) == histories.val[b]
        keys == UNION {{<<hist(b)[i][2], b>> : i \in 1..Len(hist(b))} :
                          b \in DOMAIN histories.val}
        pos(k) == CHOOSE i \in 1..Len(hist(k[2])) : hist(k[2])[i][2] = k[1]
    IN  [k \in keys |-> Last5Value(hist(k[2]), pos(k) - 1)]

\* str(x) of a float x that round(., 2) returned: its hundredths written
\* with one or two decimals.
FloatStr(x) ==
    LET h  == BigToInt(FHundredths(x))
        fp == h % 100
    IN  IntStr(h \div 100) \o <<".">> \o
        (IF fp % 10 = 0 THEN <<Digits[(fp \div 10) + 1]>>
         ELSE <<Digits[(fp \div 10) + 1], Digits[(fp % 10) + 1]>>)

new_field == "Batter_Last5_SR"

Range(seq) == {seq[i] : i \in 1..Len(seq)}

\* The header with the column appended on every run.
NewFieldnames_always_append(fieldnames) == Append(fieldnames, new_field)

\* The header pass 2 writes.
NewFieldnames(fieldnames) ==
    IF new_field \in Range(fieldnames) THEN fieldnames
    ELSE Append(fieldnames, new_field)

\* row[new_field] = value
WithField(row, f, v) ==
    [x \in DOMAIN row \cup {f} |-> IF x = f THEN v ELSE row[x]]

\* What DictWriter writes of a row: the header's fields, the float as text.
WrittenRow(row, fieldnames) ==
    [x \in Range(fieldnames) |->
        IF x = new_field THEN FloatStr(row[x]) ELSE row[x]]

(***************************************************************************)
(* State.                                                                  *)
(***************************************************************************)
VARIABLES
    bowler_type,    \* the argument of a get_bowling_category call
    category,       \* its result, "" until the call has returned
    cvArgs,         \* the arguments of a classify_venue call
    cvLabel,        \* its result, "" until the call has returned
    crrArgs,        \* the arguments of a calculate_crr call
    crrOut,         \* what it returned or raised
    input_file,     \* Data/T20_ball_by_ball.csv: its header and rows
    temp_file,      \* Data/T20_ball_by_ball_temp.csv, or NoFile
    form_pc,        \* where main of calculate_batter_recent_form is
    all_rows,       \* the rows read in pass 1
    innings_stats,  \* (File, Batter) -> runs, balls, date
    batter_history, \* batter -> sorted list of (date, file_id, runs, balls)
    last5_sr,       \* (file_id, batter) -> float
    model,          \* backend: the loaded model, as the probability
                    \* rows it may answer with
    training_columns, \* backend: the column list loaded at start-up
    score_table,    \* the arithmetic of lines 81-95 and 121-124 on each
                    \* of those rows, done once and looked up
    request,        \* per request: the posted body, or NoArgs
    scorer_pc,      \* per request: where its handler is
    sim_df,         \* per request: the batch given to predict_proba
    probs,          \* per request: the matrix predict_proba returned
    results,        \* per request: the list built in lines 79-95
    results_df,     \* per request: the sorted frame of line 99
    response,       \* per request: what the handler returned or raised
    venues_pc,      \* where main of analyze_venues is
    total_rows,     \* its count of the rows pass 1 has read
    venue_stats,    \* venue -> Pace and Spin [balls, runs, wickets]
    matches_per_venue, \* venue -> set of File values
    venue_class,    \* venue -> label
    runrate_pc,     \* where main of calculate_runrate is
    innings,        \* the overs of an innings extract_to_csv reads
    csv_data,       \* the ball records it has built, or NoFile
    first_run       \* the dataset as the first run of a script left it,
                    \* once the script has been started again

varsCategory == <<bowler_type, category>>
varsVenue == <<cvArgs, cvLabel>>
varsCrr == <<crrArgs, crrOut>>
varsForm == <<input_file, temp_file, form_pc, all_rows, innings_stats,
              batter_history, last5_sr>>
varsRequest == <<request, scorer_pc, sim_df, probs, results, results_df,
                 response>>
varsScorer == <<model, training_columns, score_table, varsRequest>>
varsVenues == <<venues_pc, total_rows, venue_stats, matches_per_venue,
                venue_class>>
varsExtract == <<innings, csv_data>>
varsPipeline == <<varsVenues, runrate_pc, varsExtract, first_run>>
vars == <<varsCategory, varsVenue, varsCrr, varsForm, varsScorer,
          varsPipeline>>

NoArgs == [none |-> TRUE]

\* A component that is not exercised keeps its variables at rest.
IdleCategory == bowler_type = << >> /\ category = ""
IdleVenue == cvArgs = NoArgs /\ cvLabel = ""
IdleCrr == crrArgs = NoArgs /\ crrOut = NoArgs
NoFile == [absent |-> TRUE]
FormLocalsInit ==
    /\ all_rows = << >>
    /\ innings_stats = EmptyDict
    /\ batter_history = EmptyDict
    /\ last5_sr = << >>
IdleForm ==
    /\ input_file = NoFile /\ temp_file = NoFile /\ form_pc = "idle"
    /\ FormLocalsInit

\* The requests the server may be handling at one time.
Requests == 1..2
NoRequests ==
    /\ request = [r \in Requests |-> NoArgs]
    /\ scorer_pc = [r \in Requests |-> "idle"]
    /\ sim_df = [r \in Requests |-> << >>]
    /\ probs = [r \in Requests |-> << >>]
    /\ results = [r \in Requests |-> << >>]
    /\ results_df = [r \in Requests |-> << >>]
    /\ response = [r \in Requests |-> NoArgs]
IdleScorer ==
    /\ model = {} /\ training_columns = << >> /\ score_table = {}
    /\ NoRequests
VenuesLocalsInit ==
    /\ total_rows = 0
    /\ venue_stats = << >>
    /\ matches_per_venue = << >>
    /\ venue_class = << >>
IdleVenues == venues_pc = "idle" /\ VenuesLocalsInit
IdleExtract == innings = NoArgs /\ csv_data = NoFile
IdlePipeline ==
    /\ IdleVenues /\ runrate_pc = "idle" /\ IdleExtract
    /\ first_run = NoFile

(***************************************************************************)
(* get_bowling_category applied to drawn bowling-style strings: the        *)
(* placeholders, and descriptions of one or two styles as the player       *)
(* registry writes them, as written, upper-cased or lower-cased.           *)
(***************************************************************************)
ArmRight ==
    <<"R", "i", "g", "h", "t", " ", "a", "r", "m", " ">>
ArmLeft ==
    <<"L", "e", "f", "t", " ", "a", "r", "m", " ">>
StyleFast ==
    <<"F", "a", "s", "t">>
StyleFastMedium ==
    <<"F", "a", "s", "t", " ", "m", "e", "d", "i", "u", "m">>
StyleMediumFast ==
    <<"M", "e", "d", "i", "u", "m", " ", "f", "a", "s", "t">>
StyleMedium ==
    <<"M", "e", "d", "i", "u", "m">>
StyleOffbreak ==
    <<"O", "f", "f", "b", "r", "e", "a", "k">>
StyleLegbreak ==
    <<"L", "e", "g", "b", "r", "e", "a", "k">>
StyleLegbreakGoogly ==
    <<"L", "e", "g", "b", "r", "e", "a", "k", " ", "G", "o", "o", "g", "l",
      "y">>
StyleOrthodox ==
    <<"S", "l", "o", "w", " ", "L", "e", "f", "t", " ", "a", "r", "m", " ",
      "O", "r", "t", "h", "o", "d", "o", "x">>
StyleWristSpin ==
    <<"W", "r", "i", "s", "t", " ", "s", "p", "i", "n">>
StyleBowler ==
    <<"B", "o", "w", "l", "e", "r">>
StrComma ==
    <<",", " ">>

Arms == {ArmRight, ArmLeft}
Styles ==
    {StyleFast, StyleFastMedium, StyleMediumFast, StyleMedium,
     StyleOffbreak, StyleLegbreak, StyleLegbreakGoogly, StyleOrthodox,
     StyleWristSpin, StyleBowler}

OneStyle == {a \o st : a \in Arms, st \in Styles}
TwoStyles ==
    {one \o StrComma \o a \o st :
        one \in OneStyle, a \in Arms \cup {StrEmpty}, st \in Styles}
Written == {StrEmpty, StrNA, StrUmpire} \cup OneStyle \cup TwoStyles
BowlerTypes ==
    Written \cup {StrUpper(w) : w \in Written} \cup {StrLower(w) : w \in Written}

InitCategory ==
    /\ IdleVenue /\ IdleCrr /\ IdleForm /\ IdleScorer /\ IdlePipeline
    /\ bowler_type \in BowlerTypes
    /\ category = ""

GetBowlingCategory ==
    /\ category = ""
    /\ category' = get_bowling_category(bowler_type)
    /\ UNCHANGED <<bowler_type, varsVenue, varsCrr, varsForm, varsScorer,
                   varsPipeline>>

NextCategory == GetBowlingCategory

SpecCategory == InitCategory /\ [][NextCategory]_vars

(***************************************************************************)
(* classify_venue applied to drawn aggregates.                             *)
(***************************************************************************)
MaxRuns == 23
MaxWickets == 7
MaxBalls == 6
MaxMatches == 3

RunValues == {0} \cup ((MaxRuns - 7)..MaxRuns)
WicketValues == {0, 1, MaxWickets}
BallValues == {0, MaxBalls}

InitVenue ==
    /\ IdleCategory /\ IdleCrr /\ IdleForm /\ IdleScorer /\ IdlePipeline
    /\ cvArgs \in [pace_balls : BallValues, pace_runs : RunValues,
                   pace_wickets : WicketValues,
                   spin_balls : BallValues, spin_runs : RunValues,
                   spin_wickets : WicketValues,
                   match_count : 0..MaxMatches]
    /\ cvLabel = ""

ClassifyVenue ==
    /\ cvArgs # NoArgs
    /\ cvLabel = ""
    /\ cvLabel' = classify_venue(cvArgs.pace_balls, cvArgs.pace_runs,
                                 cvArgs.pace_wickets, cvArgs.spin_balls,
                                 cvArgs.spin_runs, cvArgs.spin_wickets,
                                 cvArgs.match_count)
    /\ UNCHANGED <<cvArgs, varsCategory, varsCrr, varsForm, varsScorer,
                   varsPipeline>>

NextVenue == ClassifyVenue

SpecVenue == InitVenue /\ [][NextVenue]_vars

(***************************************************************************)
(* calculate_crr applied to drawn Over, Ball and Cumulative_Runs fields.   *)
(***************************************************************************)
MaxOver == 3
MaxBall == 7
MaxCum == 12

Malformed == {StrEmpty, StrNA}

InitCrr ==
    /\ IdleCategory /\ IdleVenue /\ IdleForm /\ IdleScorer /\ IdlePipeline
    /\ \/ crrArgs \in [over : {IntStr(n) : n \in 0..MaxOver},
                       ball : {IntStr(n) : n \in 0..MaxBall},
                       cumulative_runs : {IntStr(n) : n \in 0..MaxCum}]
       \/ crrArgs \in [over : {IntStr(0), IntStr(MaxOver)} \cup Malformed,
                       ball : {IntStr(0), IntStr(1)} \cup Malformed,
                       cumulative_runs : {IntStr(MaxCum)} \cup Malformed]
    /\ crrOut = NoArgs

CalculateCrr ==
    /\ crrArgs # NoArgs
    /\ crrOut = NoArgs
    /\ crrOut' = calculate_crr(crrArgs.over, crrArgs.ball,
                               crrArgs.cumulative_runs)
    /\ UNCHANGED <<crrArgs, varsCategory, varsVenue, varsForm, varsScorer,
                   varsPipeline>>

NextCrr == CalculateCrr

SpecCrr == InitCrr /\ [][NextCrr]_vars

(***************************************************************************)
(* main of calculate_batter_recent_form.py run on drawn datasets: up to    *)
(* MaxInnings matches, each a short innings of batters A and B, written in *)
(* the file in chronological order or not; the six-innings example; and a  *)
(* dataset with a Batter_Runs field that is no number.                     *)
(***************************************************************************)
MaxInnings == 7
MaxQuick == 2

Pad2(n) == <<Digits[(n \div 10) + 1], Digits[(n % 10) + 1]>>

DateStr(m, d) == <<"2", "0", "2", "1", "-">> \o Pad2(m) \o <<"-">> \o Pad2(d)

Layouts == {"ordered", "scrambled"}

\* The date and the file id of the k-th match of the file.  Scrambled:
\* dates repeat and do not follow the file order, ids are 8, 9, 10, ...
MatchDate(layout, k) ==
    IF layout = "ordered" THEN DateStr(1, k)
    ELSE DateStr(3, 10 - ((3 * k) % 4))

MatchFile(layout, k) ==
    IF layout = "ordered" THEN IntStr(100 + k) ELSE IntStr(7 + k)

Row(file, date, batter, runs, extras) ==
    [File |-> file, Batter |-> batter, Match_Date |-> date,
     Batter_Runs |-> runs, Extras_Type |-> extras]

\* A: 1 run off 3 balls, B: 4 runs off 1 ball.
SteadyInnings(file, date) ==
    <<Row(file, date, "A", IntStr(1), "N/A"),
      Row(file, date, "B", IntStr(4), "N/A"),
      Row(file, date, "A", IntStr(0), "No Ball"),
      Row(file, date, "A", IntStr(0), "Bye")>>

\* A: 6 runs off 1 ball and a wide, B: a wide only.
QuickInnings(file, date) ==
    <<Row(file, date, "A", IntStr(6), "N/A"),
      Row(file, date, "B", IntStr(0), "Wide"),
      Row(file, date, "A", IntStr(0), "Wide")>>

RECURSIVE MatchRows(_, _, _, _)
MatchRows(layout, n, quick, k) ==
    IF k > n THEN << >>
    ELSE (IF k \in quick
          THEN QuickInnings(MatchFile(layout, k), MatchDate(layout, k))
          ELSE SteadyInnings(MatchFile(layout, k), MatchDate(layout, k)))
         \o MatchRows(layout, n, quick, k + 1)

\* Six innings of 10 balls each with 10, 20, 10, 20, 10, 20 runs.
ExampleRows ==
    [i \in 1..60 |->
        LET k == ((i - 1) \div 10) + 1
        IN  Row(MatchFile("ordered", k), MatchDate("ordered", k), "A",
                IntStr(IF k % 2 = 1 THEN 1 ELSE 2), "N/A")]

MalformedRows ==
    SteadyInnings(MatchFile("ordered", 1), MatchDate("ordered", 1))
        \o <<Row(MatchFile("ordered", 2), MatchDate("ordered", 2), "A",
                 StrEmpty, "N/A")>>

\* One innings with a delivery of every extras type.
ExtrasRows ==
    [i \in 1..6 |->
        Row(MatchFile("ordered", 1), MatchDate("ordered", 1), "A", IntStr(i % 2),
            <<"N/A", "Wide", "No Ball", "Bye", "Leg Bye", "Wide">>[i])]

Datasets ==
    {MatchRows(layout, n, quick, 1) :
        layout \in Layouts,
        n \in 1..MaxInnings,
        quick \in {q \in SUBSET (1..MaxInnings) : Cardinality(q) <= MaxQuick}}
    \cup {ExampleRows, MalformedRows, ExtrasRows}

Header == <<"File", "Batter", "Match_Date", "Batter_Runs", "Extras_Type">>

InitForm ==
    /\ IdleCategory /\ IdleVenue /\ IdleCrr /\ IdleScorer /\ IdlePipeline
    /\ input_file \in {[fieldnames |-> Header, rows |-> rows] :
                          rows \in Datasets}
    /\ temp_file = NoFile
    /\ form_pc = "pass1"
    /\ FormLocalsInit

varsOthersForm == <<varsCategory, varsVenue, varsCrr, varsScorer, varsPipeline>>

\* A wide or a no-ball taken as no ball faced.
wide_or_no_ball_extras(extras_type) == extras_type \in {"Wide", "No Ball"}

\* Lines 51-52: is_wide = extras_type == 'Wide'.
wide_extras(extras_type) == extras_type = "Wide"

\* Lines 40-54: innings_stats after one row of the reader; int() of a
\* field that is no number raises after the date is stored.
fold_row(stats, row) ==
    LET key == <<row.File, row.Batter>>
        old == IF DictHas(stats, key) THEN stats.val[key] ELSE NewInnings
        batter_runs == PyInt(row.Batter_Runs)
        is_wide == wide_extras(row.Extras_Type)
    IN  IF Raises(batter_runs)
        THEN [raise |-> ValueError,
              stats |-> DictSet(stats, key, [old EXCEPT !.date = row.Match_Date])]
        ELSE [stats |-> DictSet(stats, key,
                                [runs  |-> old.runs + batter_runs.value,
                                 balls |-> old.balls + IF is_wide THEN 0 ELSE 1,
                                 date  |-> row.Match_Date])]

\* Lines 35-54: one iteration of the loop over the reader.
ReadRow ==
    /\ form_pc = "pass1"
    /\ Len(all_rows) < Len(input_file.rows)
    /\ \E row \in {input_file.rows[Len(all_rows) + 1]} :
          \E after \in {fold_row(innings_stats, row)} :
             /\ all_rows' = Append(all_rows, row)
             /\ innings_stats' = after.stats
             /\ form_pc' = IF Raises(after) THEN "raised" ELSE "pass1"
    /\ UNCHANGED <<input_file, temp_file, batter_history, last5_sr,
                   varsOthersForm>>

\* Lines 61-72: the histories, built and sorted.
BuildHistory ==
    /\ form_pc = "pass1"
    /\ Len(all_rows) = Len(input_file.rows)
    /\ batter_history' = SortedHistories(innings_stats)
    /\ form_pc' = "last5"
    /\ UNCHANGED <<input_file, temp_file, all_rows, innings_stats, last5_sr,
                   varsOthersForm>>

\* Lines 76-88.
ComputeLast5 ==
    /\ form_pc = "last5"
    /\ last5_sr' = Last5Map(batter_history)
    /\ form_pc' = "pass2"
    /\ UNCHANGED <<input_file, temp_file, all_rows, innings_stats,
                   batter_history, varsOthersForm>>

\* Lines 93-101: the temporary file opened and its header written.
OpenTemp ==
    /\ form_pc = "pass2"
    /\ temp_file' = [fieldnames |-> NewFieldnames(input_file.fieldnames),
                     rows |-> << >>]
    /\ form_pc' = "write"
    /\ UNCHANGED <<input_file, all_rows, innings_stats, batter_history,
                   last5_sr, varsOthersForm>>

\* Lines 102-105: one iteration of the loop over all_rows.
WriteRow ==
    /\ form_pc = "write"
    /\ Len(temp_file.rows) < Len(all_rows)
    /\ LET i   == Len(temp_file.rows) + 1
           key == <<all_rows[i].File, all_rows[i].Batter>>
           row == WithField(all_rows[i], new_field,
                            IF key \in DOMAIN last5_sr THEN last5_sr[key]
                            ELSE FZero)
       IN  /\ all_rows' = [all_rows EXCEPT ![i] = row]
           /\ temp_file' = [temp_file EXCEPT !.rows =
                               Append(@, WrittenRow(row, temp_file.fieldnames))]
    /\ UNCHANGED <<input_file, form_pc, innings_stats, batter_history,
                   last5_sr, varsOthersForm>>

\* Line 107: os.replace(TEMP_FILE, INPUT_FILE).
Replace ==
    /\ form_pc = "write"
    /\ Len(temp_file.rows) = Len(all_rows)
    /\ input_file' = temp_file
    /\ temp_file' = NoFile
    /\ form_pc' = "done"
    /\ UNCHANGED <<all_rows, innings_stats, batter_history, last5_sr,
                   varsOthersForm>>

NextForm ==
    \/ ReadRow \/ BuildHistory \/ ComputeLast5
    \/ OpenTemp \/ WriteRow \/ Replace

SpecForm == InitForm /\ [][NextForm]_vars

(***************************************************************************)
(* The batting-order scorer: backend/main.py.  A dict is a function from   *)
(* its keys; a request body is the dict the client posted.  The trained    *)
(* model is opaque: predict_proba answers each row of a batch with one of  *)
(* ProbRows, the same answer for equal rows.                               *)
(***************************************************************************)
KeyError == "KeyError"
RequestValidationError == "RequestValidationError"
PyNone == [py_none |-> TRUE]

\* Lines 30-37: the fields MatchScenario declares, available_batters last.
ScenarioFields == {"Over", "Cumulative_Wickets", "Current_Run_Rate", "Inning", "Venue_Type", "Bowler_Group"}

\* Lines 25-27: BatterInfo declares name and sr, neither with a default.
BatterFields == {"name", "sr"}

\* Lines 104-107: the body is validated against MatchScenario (a required
\* field that is absent fails the request, an undeclared one is dropped),
\* dumped, and available_batters popped.
ValidBody(body) ==
    /\ ScenarioFields \cup {"available_batters"} \subseteq DOMAIN body
    /\ \A i \in 1..Len(body.available_batters) : BatterFields \subseteq DOMAIN body.available_batters[i]

\* A number posted for a field declared float is read as a float.
scenario_dict(body) ==
    [k \in ScenarioFields |-> IF k = "Current_Run_Rate" THEN FInt(body[k]) ELSE body[k]]

batters_list(body) ==
    [i \in 1..Len(body.available_batters) |->
        [name |-> body.available_batters[i]["name"], sr |-> FInt(body.available_batters[i]["sr"])]]

\* Lines 58-59: the default strike rates, 100.0.
DefaultSR == FInt(100)

\* Lines 55-61: base_scenario, updated with the scenario.
base_scenario(scenario) ==
    [k \in ScenarioFields \cup {"Batter_Last5_SR", "Batter_vs_BowlerType_SR"} \cup DOMAIN scenario |->
        IF k \in DOMAIN scenario THEN scenario[k]
        ELSE IF k \in ScenarioFields THEN PyNone ELSE DefaultSR]

\* Lines 65-67: sim_data of one batter.
sim_data(scenario, batter_info) ==
    [k \in DOMAIN base_scenario(scenario) \cup {"Batter"} |->
        IF k = "Batter" THEN batter_info["name"]
        ELSE IF k = "Batter_Last5_SR" THEN batter_info["sr"]
        ELSE base_scenario(scenario)[k]]

\* Lines 63-71: the frame of the simulations; no rows, no columns.
simulations(scenario, available_batters) ==
    [i \in 1..Len(available_batters) |-> sim_data(scenario, available_batters[i])]

FrameColumns(sims) == IF Len(sims) = 0 THEN {} ELSE DOMAIN sims[1]

\* Line 74: sim_df[training_columns], each row in the order of the columns;
\* a column the frame lacks raises KeyError.
SelectColumns(sims, columns) ==
    IF \E j \in 1..Len(columns) : columns[j] \notin FrameColumns(sims)
    THEN [raise |-> KeyError]
    ELSE [value |-> [i \in 1..Len(sims) |-> [j \in 1..Len(columns) |-> sims[i][columns[j]]]]]

\* A probability row (Pressure, Strike Rotation, Boundary) written as
\* fractions n / d: [0.5, 0.3, 0.2] is ProbRow(<<5, 3, 2>>, 10).
ProbRow(n, d) == [k \in 1..3 |-> FRat(n[k], d)]

\* Line 77: what predict_proba may return for a batch.
Predictions(batch) ==
    {p \in [1..Len(batch) -> model] :
        \A i, j \in 1..Len(batch) : batch[i] = batch[j] => p[i] = p[j]}

\* Lines 81-83: the class probabilities as percentages, as terms.
p_pressure(row) == XMul(XVal(row[1]), XInt(100))
p_rotation(row) == XMul(XVal(row[2]), XInt(100))
p_boundary(row) == XMul(XVal(row[3]), XInt(100))

tactical_score_pressure_weighted(row) ==
    XSub(XAdd(XMul(p_pressure(row), XRat(3, 2)), XMul(p_rotation(row), XInt(1))),
         XMul(p_boundary(row), XInt(1)))

\* Line 87: (p_boundary * 1.5) + (p_rotation * 1.0) - (p_pressure * 1.0).
tactical_score(row) ==
    XSub(XAdd(XMul(p_boundary(row), XRat(3, 2)), XMul(p_rotation(row), XInt(1))),
         XMul(p_pressure(row), XInt(1)))

\* Lines 81-87: the four numbers one iteration of the loop computes.
Locals(row) ==
    LET terms == [p_pressure     |-> p_pressure(row),
                  p_rotation     |-> p_rotation(row),
                  p_boundary     |-> p_boundary(row),
                  tactical_score |-> tactical_score(row)]
    IN  [k \in DOMAIN terms |-> FEval(terms[k])]

\* Lines 91-94: the rounded numbers of one result.
Scored(locals) ==
    LET numbers == [Tactical_Score  |-> locals.tactical_score,
                    Boundary_Prob   |-> locals.p_boundary,
                    Strike_Rotation |-> locals.p_rotation,
                    Pressure_Prob   |-> locals.p_pressure]
    IN  [k \in DOMAIN numbers |-> NpRound2(numbers[k])]

\* Lines 121-124: the numbers of one entry of the response.
Formatted(scored) ==
    LET numbers == [Boundary_Prob     |-> scored.Boundary_Prob,
                    Strike_Rotation   |-> scored.Strike_Rotation,
                    Pressure_Prob     |-> scored.Pressure_Prob,
                    Middle_Over_Score |-> scored.Tactical_Score]
    IN  [k \in DOMAIN numbers |-> PyRound2(numbers[k])]

\* The arithmetic of a row depends on the row alone: it is done once for
\* each row the model may answer with, and looked up.
ScoreEntry(row, locals, scored) ==
    [row |-> row, locals |-> locals, scored |-> scored, formatted |-> Formatted(scored)]
ScoreTable(rows) ==
    {ScoreEntry(e[1], e[2], Scored(e[2])) : e \in {<<row, Locals(row)>> : row \in rows}}
LocalsOf(row) == (CHOOSE e \in score_table : e.row = row).locals
ScoredOf(row) == (CHOOSE e \in score_table : e.row = row).scored
FormattedOf(scored) == (CHOOSE e \in score_table : e.scored = scored).formatted

\* Lines 79-95: the results, in the order of available_batters; row i of
\* the probabilities goes with batter i.
ResultsOf(available_batters, p) ==
    [i \in 1..Len(available_batters) |->
        LET scored == ScoredOf(p[i])
        IN  [Batter          |-> available_batters[i]["name"],
             Tactical_Score  |-> scored.Tactical_Score,
             Boundary_Prob   |-> scored.Boundary_Prob,
             Strike_Rotation |-> scored.Strike_Rotation,
             Pressure_Prob   |-> scored.Pressure_Prob]]

OrdersOf(n) == {o \in [1..n -> 1..n] : \A i, j \in 1..n : o[i] = o[j] => i = j}

\* The one frame a stable descending sort gives: equal scores keep the
\* order they came in.
StableSortedFrames(res) ==
    {[k \in 1..Len(res) |-> res[o[k]]] : o \in
        {o \in OrdersOf(Len(res)) : \A k \in 1..(Len(res) - 1) :
            \/ FGt(res[o[k]].Tactical_Score, res[o[k + 1]].Tactical_Score)
            \/ /\ FEq(res[o[k]].Tactical_Score, res[o[k + 1]].Tactical_Score)
               /\ o[k] < o[k + 1]}}

\* The frames in ascending order of Tactical_Score.
SortedFrames_ascending(res) ==
    {[k \in 1..Len(res) |-> res[o[k]]] : o \in
        {o \in OrdersOf(Len(res)) : \A k \in 1..(Len(res) - 1) :
            FGe(res[o[k + 1]].Tactical_Score, res[o[k]].Tactical_Score)}}

\* Line 99: sort_values(by='Tactical_Score', ascending=False) with the
\* default kind, quicksort, which is not stable: any descending order of
\* the rows may come out.
SortedFrames(res) ==
    {[k \in 1..Len(res) |-> res[o[k]]] : o \in
        {o \in OrdersOf(Len(res)) : \A k \in 1..(Len(res) - 1) :
            FGe(res[o[k]].Tactical_Score, res[o[k + 1]].Tactical_Score)}}

\* Lines 113-127: the response, Rank counting from 1.
optimized_order(frame) ==
    [idx \in 1..Len(frame) |->
        LET row == frame[idx]
            rounded == FormattedOf([Tactical_Score  |-> row.Tactical_Score,
                                    Boundary_Prob   |-> row.Boundary_Prob,
                                    Strike_Rotation |-> row.Strike_Rotation,
                                    Pressure_Prob   |-> row.Pressure_Prob])
        IN  [Rank              |-> idx,
             Batter            |-> row.Batter,
             Boundary_Prob     |-> rounded.Boundary_Prob,
             Strike_Rotation   |-> rounded.Strike_Rotation,
             Pressure_Prob     |-> rounded.Pressure_Prob,
             Middle_Over_Score |-> rounded.Middle_Over_Score]]

(***************************************************************************)
(* One request handled from its body to its response.  The bodies: the     *)
(* scenario of a match, with up to MaxBatters batters, one of whom gives   *)
(* no sr; a body may carry a field MatchScenario does not declare.         *)
(***************************************************************************)
MaxBatters == 3

StrPhase == "Phase"

TrainingColumns == <<"Over", "Cumulative_Wickets", "Current_Run_Rate", "Inning", "Venue_Type", "Bowler_Group", "Batter", "Batter_Last5_SR", "Batter_vs_BowlerType_SR">>

\* The column lists the server may have loaded: the rows' own columns, or
\* those and one the rows do not have.
ColumnLists == {TrainingColumns, Append(TrainingColumns, StrPhase)}

Batters ==
    { [name |-> "A", sr |-> 120], [name |-> "B", sr |-> 120],
      [name |-> "A", sr |-> 95], [name |-> "C"] }

Lineups == UNION {[1..n -> Batters] : n \in 0..MaxBatters}

BodyOf(lineup, group) ==
    [Over |-> 10, Cumulative_Wickets |-> 2, Current_Run_Rate |-> 8,
     Inning |-> 1, Venue_Type |-> "Neutral", Bowler_Group |-> group,
     available_batters |-> lineup]

WithPhase(body) == [k \in DOMAIN body \cup {StrPhase} |-> IF k = StrPhase THEN "Middle" ELSE body[k]]

Bodies ==
    {BodyOf(lineup, "Pace") : lineup \in Lineups}
    \cup {WithPhase(BodyOf(lineup, "Spin")) : lineup \in Lineups}

\* The rows the loaded model answers with: those of a worked example in
\* tenths, and one in sixteenths whose score has three decimals.
LoadedFractions ==
    { << <<5, 3, 2>>, 10>>, << <<1, 3, 6>>, 10>>,
      << <<3, 3, 4>>, 10>>, << <<1, 14, 1>>, 16>> }

LoadedRows == {ProbRow(q[1], q[2]) : q \in LoadedFractions}

\* The process before lines 21-22 have run.
InitScorer ==
    /\ IdleCategory /\ IdleVenue /\ IdleCrr /\ IdleForm
    /\ IdleScorer /\ IdlePipeline

varsOthersScorer == <<varsCategory, varsVenue, varsCrr, varsForm, varsPipeline>>

\* Lines 21-22: the model and its column list are loaded.
Startup ==
    /\ model = {}
    /\ model' = LoadedRows
    /\ score_table' = ScoreTable(LoadedRows)
    /\ training_columns' \in ColumnLists
    /\ UNCHANGED <<varsRequest, varsOthersScorer>>

\* A client posts one of some bodies to /api/optimize.
Receive(r, bodies) ==
    /\ model # {}
    /\ scorer_pc[r] = "idle"
    /\ \E body \in bodies : request' = [request EXCEPT ![r] = body]
    /\ scorer_pc' = [scorer_pc EXCEPT ![r] = "received"]
    /\ UNCHANGED <<model, training_columns, score_table, sim_df, probs, results, results_df, response, varsOthersScorer>>

Post(r) == Receive(r, Bodies)

\* Lines 103-127, optimize_order with the call of optimize_batting_order.
OptimizeOrder(r) ==
    /\ scorer_pc[r] = "received"
    /\ scorer_pc' = [scorer_pc EXCEPT ![r] = "done"]
    /\ LET body == request[r]
       IN  IF ~ValidBody(body)
           THEN /\ response' = [response EXCEPT ![r] = [raise |-> RequestValidationError]]
                /\ UNCHANGED <<sim_df, probs, results, results_df>>
           ELSE LET available_batters == batters_list(body)
                    batch == SelectColumns(simulations(scenario_dict(body), available_batters), training_columns)
                IN  IF Raises(batch)
                    THEN /\ response' = [response EXCEPT ![r] = batch]
                         /\ UNCHANGED <<sim_df, probs, results, results_df>>
                    ELSE \E p \in Predictions(batch.value) :
                         \E frame \in SortedFrames(ResultsOf(available_batters, p)) :
                            /\ sim_df' = [sim_df EXCEPT ![r] = batch.value]
                            /\ probs' = [probs EXCEPT ![r] = p]
                            /\ results' = [results EXCEPT ![r] = ResultsOf(available_batters, p)]
                            /\ results_df' = [results_df EXCEPT ![r] = frame]
                            /\ response' = [response EXCEPT ![r] = [value |-> optimized_order(frame)]]
    /\ UNCHANGED <<request, model, training_columns, score_table, varsOthersScorer>>

NextScorer == Startup \/ Post(1) \/ OptimizeOrder(1)

SpecScorer == InitScorer /\ [][NextScorer]_vars

(***************************************************************************)
(* Two requests in flight.  optimize_order is a def endpoint, which the    *)
(* server calls on a worker thread, so the statements of two calls         *)
(* interleave; each call's locals live in its own frame.  main.py has no   *)
(* global statement and no assignment to model or training_columns after   *)
(* lines 21-22.                                                            *)
(***************************************************************************)

\* All calls keeping their locals in one frame.
shared_frame(r) == 1

\* The frame of the call that handles request r.
call_frame(r) == r

\* Lines 106-110 and 52-74: the body validated and sim_df built.
BuildBatch(r) ==
    /\ scorer_pc[r] = "received"
    /\ LET body == request[r]
       IN  IF ~ValidBody(body)
           THEN /\ response' = [response EXCEPT ![r] = [raise |-> RequestValidationError]]
                /\ scorer_pc' = [scorer_pc EXCEPT ![r] = "done"]
                /\ UNCHANGED sim_df
           ELSE \E batch \in {SelectColumns(simulations(scenario_dict(body), batters_list(body)), training_columns)} :
                   IF Raises(batch)
                   THEN /\ response' = [response EXCEPT ![r] = batch]
                        /\ scorer_pc' = [scorer_pc EXCEPT ![r] = "done"]
                        /\ UNCHANGED sim_df
                   ELSE /\ sim_df' = [sim_df EXCEPT ![call_frame(r)] = batch.value]
                        /\ scorer_pc' = [scorer_pc EXCEPT ![r] = "built"]
                        /\ UNCHANGED response
    /\ UNCHANGED <<request, probs, results, results_df, model, training_columns,
                   score_table, varsOthersScorer>>

\* Line 77: predict_proba on the call's own sim_df.
Predict(r) ==
    /\ scorer_pc[r] = "built"
    /\ \E p \in Predictions(sim_df[call_frame(r)]) :
          probs' = [probs EXCEPT ![call_frame(r)] = p]
    /\ scorer_pc' = [scorer_pc EXCEPT ![r] = "predicted"]
    /\ UNCHANGED <<request, sim_df, results, results_df, response, model,
                   training_columns, score_table, varsOthersScorer>>

\* Lines 79-99: the result list and the sorted frame.
Rank(r) ==
    /\ scorer_pc[r] = "predicted"
    /\ \E res \in {ResultsOf(batters_list(request[r]), probs[call_frame(r)])} :
          /\ results' = [results EXCEPT ![call_frame(r)] = res]
          /\ \E frame \in SortedFrames(res) :
                results_df' = [results_df EXCEPT ![call_frame(r)] = frame]
    /\ scorer_pc' = [scorer_pc EXCEPT ![r] = "ranked"]
    /\ UNCHANGED <<request, sim_df, probs, response, model, training_columns,
                   score_table, varsOthersScorer>>

\* Lines 113-127: the response built from the returned frame.
Respond(r) ==
    /\ scorer_pc[r] = "ranked"
    /\ response' = [response EXCEPT ![r] = [value |-> optimized_order(results_df[call_frame(r)])]]
    /\ scorer_pc' = [scorer_pc EXCEPT ![r] = "done"]
    /\ UNCHANGED <<request, sim_df, probs, results, results_df, model,
                   training_columns, score_table, varsOthersScorer>>

\* The lineups of two concurrent clients: one or two batters, two of equal
\* strike rate, one without sr.
ConcurrentLineups ==
    { <<[name |-> "A", sr |-> 120]>>,
      <<[name |-> "A", sr |-> 120], [name |-> "B", sr |-> 120]>>,
      <<[name |-> "B", sr |-> 120], [name |-> "A", sr |-> 95]>>,
      <<[name |-> "C"]>> }

ConcurrentBodies ==
    {BodyOf(lineup, "Pace") : lineup \in ConcurrentLineups}
    \cup {WithPhase(BodyOf(<<[name |-> "B", sr |-> 120]>>, "Spin"))}

Handle(r) ==
    \/ Receive(r, ConcurrentBodies)
    \/ BuildBatch(r) \/ Predict(r) \/ Rank(r) \/ Respond(r)

NextConcurrent == Startup \/ Handle(1) \/ Handle(2)

SpecConcurrent == InitScorer /\ [][NextConcurrent]_vars

(***************************************************************************)
(* main of analyze_venues.py: pass 1 aggregates every delivery row of the  *)
(* dataset by venue and bowling category, the labels are computed, and     *)
(* pass 2 rewrites the dataset with the Venue_Type column.  A dict is a    *)
(* function from its keys.                                                 *)
(***************************************************************************)
StrWides == <<"w", "i", "d", "e", "s">>
StrNoBall == <<"n", "o", " ", "b", "a", "l", "l">>
StrNoballs == <<"n", "o", "b", "a", "l", "l", "s">>
StrRunOut == <<"r", "u", "n", " ", "o", "u", "t">>
StrRetired == <<"r", "e", "t", "i", "r", "e", "d">>
StrObstructing == <<"o", "b", "s", "t", "r", "u", "c", "t", "i", "n", "g">>

\* Lines 117-120, on row['Extras_Type'].
is_wide(row) == StrContains(StrLower(row.Extras_Type), StrWides)
is_no_ball(row) ==
    \/ StrContains(StrLower(row.Extras_Type), StrNoBall)
    \/ StrContains(StrLower(row.Extras_Type), StrNoballs)
is_legal(row) == ~(is_wide(row) \/ is_no_ball(row))

\* Every delivery whose Wicket field is set counted as a wicket.
is_wicket_any_dismissal(row) == row.Wicket \notin {"No", "0", "", "N/A"}

\* Lines 122-126.
is_wicket(row) ==
    /\ row.Wicket \notin {"No", "0", "", "N/A"}
    /\ ~\E x \in {StrRunOut, StrRetired, StrObstructing} :
           StrContains(StrLower(row.Wicket_Mode), x)

\* Line 97: what the defaultdict gives a venue it has not seen.
NewVenueStats == [Pace |-> <<0, 0, 0>>, Spin |-> <<0, 0, 0>>]

\* d[k] of a defaultdict, and d with d[k] set to v.
GetOr(d, k, default) == IF k \in DOMAIN d THEN d[k] ELSE default
MapSet(d, k, v) == [x \in DOMAIN d \cup {k} |-> IF x = k THEN v ELSE d[x]]

\* Lines 128-132: [balls, runs, wickets] with one delivery added.
Counted(counts, row, runs) ==
    <<counts[1] + (IF is_legal(row) THEN 1 ELSE 0),
      counts[2] + runs,
      counts[3] + (IF is_wicket(row) THEN 1 ELSE 0)>>

\* Pass 1 adding the match to the venue only after the Unknown test.
aggregate_row_known_matches(stats, matches, row) ==
    LET venue    == row.Venue
        bowling  == get_bowling_category(row.Bowler_Type)
        runs     == PyInt(row.Total_Runs_This_Ball)
        added    == MapSet(matches, venue, GetOr(matches, venue, {}) \cup {row.File})
    IN  IF bowling = "Unknown" THEN [stats |-> stats, matches |-> matches]
        ELSE IF Raises(runs) THEN [raise |-> ValueError, stats |-> stats, matches |-> added]
        ELSE [stats |-> MapSet(stats, venue,
                  [GetOr(stats, venue, NewVenueStats) EXCEPT
                      ![bowling] = Counted(@, row, runs.value)]),
              matches |-> added]

\* Lines 106-132: one iteration of the loop of pass 1 on venue_stats and
\* matches_per_venue; int() of a field that is no number raises.
aggregate_row(stats, matches, row) ==
    LET venue    == row.Venue
        bowling  == get_bowling_category(row.Bowler_Type)
        runs     == PyInt(row.Total_Runs_This_Ball)
        added    == MapSet(matches, venue, GetOr(matches, venue, {}) \cup {row.File})
    IN  IF bowling = "Unknown" THEN [stats |-> stats, matches |-> added]
        ELSE IF Raises(runs) THEN [raise |-> ValueError, stats |-> stats, matches |-> added]
        ELSE [stats |-> MapSet(stats, venue,
                  [GetOr(stats, venue, NewVenueStats) EXCEPT
                      ![bowling] = Counted(@, row, runs.value)]),
              matches |-> added]

\* Lines 137-142: the label of every venue of venue_stats.
\* No label computed before pass 2.
BuildVenueClass_none(stats, matches) == << >>

BuildVenueClass(stats, matches) ==
    [venue \in DOMAIN stats |->
        classify_venue(stats[venue].Pace[1], stats[venue].Pace[2], stats[venue].Pace[3],
                       stats[venue].Spin[1], stats[venue].Spin[2], stats[venue].Spin[3],
                       Cardinality(matches[venue]))]

venue_field == "Venue_Type"

\* The header with the column appended on every run.
VenueFieldnames_always_append(fieldnames) == Append(fieldnames, venue_field)

\* Lines 159-162.
VenueFieldnames(fieldnames) ==
    IF venue_field \in Range(fieldnames) THEN fieldnames
    ELSE Append(fieldnames, venue_field)

\* The lookup failing open to Pace Friendly.
venue_type_pace_default(vclass, venue) == GetOr(vclass, venue, "Pace Friendly")

\* Line 173: venue_class.get(row['Venue'], 'Neutral').
venue_type(vclass, venue) == GetOr(vclass, venue, "Neutral")

\* Lines 172-174: a row as pass 2 writes it.
RewrittenRow(row, vclass, fieldnames) ==
    [x \in Range(fieldnames) |->
        IF x = venue_field THEN venue_type(vclass, row.Venue) ELSE row[x]]

(***************************************************************************)
(* The datasets analyze_venues is run on: up to MaxDeliveries delivery     *)
(* rows as extract_to_csv writes them, in the order of their match files;  *)
(* a match is played at one venue.                                         *)
(***************************************************************************)
MaxDeliveries == 3

MatchFiles == <<"m1.json", "m2.json", "m3.json", "m4.json">>

VenueOfMatch ==
    [f \in Range(MatchFiles) |-> IF f = "m4.json" THEN "Lord's" ELSE "Eden Gardens"]

ExtrasWide == <<"W", "i", "d", "e">>
ExtrasNoBall == <<"N", "o", " ", "B", "a", "l", "l">>
ExtrasBye == <<"B", "y", "e">>
ExtrasLegBye == <<"L", "e", "g", " ", "B", "y", "e">>

\* Lines 94-106 of extract_to_csv.py: the values of Extras_Type.
ExtrasTypes == {StrNA, ExtrasWide, ExtrasNoBall, ExtrasBye, ExtrasLegBye}

ModeBowled == <<"b", "o", "w", "l", "e", "d">>
ModeStumped == <<"s", "t", "u", "m", "p", "e", "d">>

Delivery(bowler_style, runs, extras, wicket, mode) ==
    [Bowler_Type |-> bowler_style, Total_Runs_This_Ball |-> IntStr(runs),
     Extras_Type |-> extras, Wicket |-> wicket, Wicket_Mode |-> mode]

\* A four off a fast bowler; an off-spinner bowling a batter; a stumping
\* off a fast bowler's wide; the same off a bowler of no known style.
LabelKinds ==
    { Delivery(ArmRight \o StyleFast, 4, StrNA, "No", StrNA),
      Delivery(ArmRight \o StyleOffbreak, 0, StrNA, "Yes", ModeBowled),
      Delivery(ArmRight \o StyleFast, 1, ExtrasWide, "Yes", ModeStumped),
      Delivery(StrNA, 1, ExtrasWide, "Yes", ModeStumped) }

\* Those, and a run out off a spinner's no-ball, a bye, a leg bye.
DeliveryKinds ==
    LabelKinds \cup
    { Delivery(ArmRight \o StyleOffbreak, 1, ExtrasNoBall, "Yes", StrRunOut),
      Delivery(ArmRight \o StyleFast, 1, ExtrasBye, "No", StrNA),
      Delivery(ArmRight \o StyleOffbreak, 1, ExtrasLegBye, "No", StrNA) }

ModeRunOutTitle == <<"R", "u", "n", " ", "O", "u", "t">>
ModeRetiredHurt == StrRetired \o <<" ", "h", "u", "r", "t">>
ModeObstructing == StrObstructing \o <<" ", "t", "h", "e", " ", "f", "i", "e", "l", "d">>

\* Dismissals not credited to the bowler, a wicket with no mode given, and
\* the values of Wicket that stand for no wicket.
WicketKinds ==
    { Delivery(ArmRight \o StyleFast, 0, StrNA, "Yes", ModeRunOutTitle),
      Delivery(ArmRight \o StyleFast, 0, StrNA, "Yes", ModeRetiredHurt),
      Delivery(ArmRight \o StyleOffbreak, 0, StrNA, "Yes", ModeObstructing),
      Delivery(ArmRight \o StyleOffbreak, 0, StrNA, "Yes", StrNA),
      Delivery(ArmRight \o StyleFast, 0, StrNA, "N/A", StrNA),
      Delivery(ArmRight \o StyleFast, 0, StrNA, "0", ModeBowled),
      Delivery(ArmRight \o StyleOffbreak, 0, StrNA, "", StrNA) }

DeliveryRow(k, kind) ==
    [x \in DOMAIN kind \cup {"File", "Venue"} |->
        IF x = "File" THEN MatchFiles[k]
        ELSE IF x = "Venue" THEN VenueOfMatch[MatchFiles[k]]
        ELSE kind[x]]

VenueHeader == <<"File", "Venue", "Bowler_Type", "Total_Runs_This_Ball", "Extras_Type", "Wicket", "Wicket_Mode">>

\* The match of each row, of the first `files` matches: the rows of a match
\* are together, the matches in the order of their files.
MatchOrders(n, files) ==
    {m \in [1..n -> 1..files] : \A i \in 1..(n - 1) : m[i] <= m[i + 1]}

DatasetsOf(kinds, files) ==
    UNION {{[i \in 1..n |-> DeliveryRow(m[i], d[i])] : m \in MatchOrders(n, files), d \in [1..n -> kinds]} :
              n \in 0..MaxDeliveries}

\* Deliveries of several matches that decide the labels, deliveries of
\* every kind in one match, and deliveries of every wicket value in one.
VenueDatasets ==
    DatasetsOf(LabelKinds, Len(MatchFiles)) \cup DatasetsOf(DeliveryKinds, 1)
        \cup DatasetsOf(WicketKinds, 1)

InitVenues ==
    /\ IdleCategory /\ IdleVenue /\ IdleCrr /\ IdleScorer
    /\ form_pc = "idle" /\ FormLocalsInit
    /\ runrate_pc = "idle" /\ IdleExtract /\ first_run = NoFile
    /\ input_file \in {[fieldnames |-> VenueHeader, rows |-> rows] :
                          rows \in VenueDatasets}
    /\ temp_file = NoFile
    /\ venues_pc = "pass1"
    /\ VenuesLocalsInit

varsFormLocals == <<form_pc, all_rows, innings_stats, batter_history, last5_sr>>
varsOthersVenues ==
    <<varsCategory, varsVenue, varsCrr, varsScorer, varsFormLocals,
      runrate_pc, varsExtract>>

\* Lines 105-132: one iteration of the loop over the reader.
AggregateRow ==
    /\ venues_pc = "pass1"
    /\ total_rows < Len(input_file.rows)
    /\ LET after == aggregate_row(venue_stats, matches_per_venue,
                                  input_file.rows[total_rows + 1])
       IN  /\ total_rows' = total_rows + 1
           /\ venue_stats' = after.stats
           /\ matches_per_venue' = after.matches
           /\ venues_pc' = IF Raises(after) THEN "raised" ELSE "pass1"
    /\ UNCHANGED <<input_file, temp_file, venue_class, first_run, varsOthersVenues>>

\* Lines 136-142: the labels; a ZeroDivisionError of classify_venue ends
\* the run.
BuildClasses ==
    /\ venues_pc = "pass1"
    /\ total_rows = Len(input_file.rows)
    /\ venue_class' = BuildVenueClass(venue_stats, matches_per_venue)
    /\ venues_pc' = IF \E venue \in DOMAIN venue_class' : venue_class'[venue] = ZeroDivisionError
                    THEN "raised"
                    ELSE "pass2"
    /\ UNCHANGED <<input_file, temp_file, total_rows, venue_stats,
                   matches_per_venue, first_run, varsOthersVenues>>

\* Lines 159-170: the header, and the temporary file opened with it.
OpenVenueTemp ==
    /\ venues_pc = "pass2"
    /\ temp_file' = [fieldnames |-> VenueFieldnames(input_file.fieldnames),
                     rows |-> << >>]
    /\ venues_pc' = "write"
    /\ UNCHANGED <<input_file, total_rows, venue_stats, matches_per_venue,
                   venue_class, first_run, varsOthersVenues>>

\* Lines 172-175: one iteration of the loop over the reader of pass 2.
WriteVenueRow ==
    /\ venues_pc = "write"
    /\ Len(temp_file.rows) < Len(input_file.rows)
    /\ temp_file' = [temp_file EXCEPT !.rows =
                        Append(@, RewrittenRow(input_file.rows[Len(temp_file.rows) + 1],
                                               venue_class, temp_file.fieldnames))]
    /\ UNCHANGED <<input_file, venues_pc, total_rows, venue_stats,
                   matches_per_venue, venue_class, first_run, varsOthersVenues>>

\* The dataset file replaced while the last row is still to be written.
ReplaceVenueFile_before_last_row ==
    /\ venues_pc = "write"
    /\ Len(temp_file.rows) + 1 = Len(input_file.rows)
    /\ input_file' = temp_file
    /\ temp_file' = NoFile
    /\ venues_pc' = "done"
    /\ UNCHANGED <<total_rows, venue_stats, matches_per_venue, venue_class,
                   first_run, varsOthersVenues>>

\* Line 178: os.replace(TEMP_FILE, INPUT_FILE).
ReplaceVenueFile ==
    /\ venues_pc = "write"
    /\ Len(temp_file.rows) = Len(input_file.rows)
    /\ input_file' = temp_file
    /\ temp_file' = NoFile
    /\ venues_pc' = "done"
    /\ UNCHANGED <<total_rows, venue_stats, matches_per_venue, venue_class,
                   first_run, varsOthersVenues>>

NextVenues ==
    \/ AggregateRow \/ BuildClasses
    \/ OpenVenueTemp \/ WriteVenueRow \/ ReplaceVenueFile

SpecVenues == InitVenues /\ [][NextVenues]_vars

(***************************************************************************)
(* extract_to_csv.py on the overs of one innings, as the match JSON has    *)
(* them: an over is its number and the list of its deliveries, wides and   *)
(* no-balls included; a delivery is its runs and, when it has extras, the  *)
(* dict of those.                                                          *)
(***************************************************************************)

\* Lines 94-106: Extras_Type of a delivery.
extras_type(delivery) ==
    IF delivery.runs.extras > 0 /\ "extras" \in DOMAIN delivery
    THEN IF "wides" \in DOMAIN delivery.extras THEN ExtrasWide
         ELSE IF "noballs" \in DOMAIN delivery.extras THEN ExtrasNoBall
         ELSE IF "byes" \in DOMAIN delivery.extras THEN ExtrasBye
         ELSE IF "legbyes" \in DOMAIN delivery.extras THEN ExtrasLegBye
         ELSE StrNA
    ELSE StrNA

\* Lines 69-70: enumerate(deliveries), ball_num = ball_idx + 1.
ball_num(deliveries, ball_idx) == ball_idx + 1

\* Lines 64-138 for one over: its ball records, total_runs running on from
\* the overs before.
RECURSIVE OverRecords(_, _, _)
OverRecords(over_data, ball_idx, total_runs) ==
    IF ball_idx >= Len(over_data.deliveries) THEN << >>
    ELSE LET delivery == over_data.deliveries[ball_idx + 1]
             total    == total_runs + delivery.runs.total
         IN  <<[Over |-> over_data.over,
                Ball |-> ball_num(over_data.deliveries, ball_idx),
                Extras_Type |-> extras_type(delivery),
                Total_Runs_This_Ball |-> delivery.runs.total,
                Cumulative_Runs |-> total]>>
             \o OverRecords(over_data, ball_idx + 1, total)

RECURSIVE InningsRecords(_, _, _)
InningsRecords(overs, k, total_runs) ==
    IF k > Len(overs) THEN << >>
    ELSE LET records == OverRecords(overs[k], 0, total_runs)
         IN  records \o InningsRecords(overs, k + 1,
                            IF Len(records) = 0 THEN total_runs
                            ELSE records[Len(records)].Cumulative_Runs)

(***************************************************************************)
(* The innings: two overs of six legal balls, a single off each, with up   *)
(* to MaxExtras wides or no-balls bowled among the balls of each over.     *)
(***************************************************************************)
MaxExtras == 1

LegalBall == [runs |-> [batter |-> 1, extras |-> 0, total |-> 1]]
WideBall == [runs |-> [batter |-> 0, extras |-> 1, total |-> 1], extras |-> [wides |-> 1]]
NoBall == [runs |-> [batter |-> 0, extras |-> 1, total |-> 1], extras |-> [noballs |-> 1]]

Overs ==
    UNION {{d \in [1..(6 + x) -> {LegalBall, WideBall, NoBall}] :
                Cardinality({j \in 1..(6 + x) : d[j] = LegalBall}) = 6} :
              x \in 0..MaxExtras}

InningsOvers == {<<[over |-> 0, deliveries |-> a], [over |-> 1, deliveries |-> b]>> : a \in Overs, b \in Overs}

InitExtract ==
    /\ IdleCategory /\ IdleVenue /\ IdleCrr /\ IdleForm /\ IdleScorer
    /\ IdleVenues /\ runrate_pc = "idle" /\ first_run = NoFile
    /\ innings \in InningsOvers
    /\ csv_data = NoFile

\* Lines 54-138 for the innings, and lines 146-154: the records written.
ExtractInnings ==
    /\ innings # NoArgs
    /\ csv_data = NoFile
    /\ csv_data' = InningsRecords(innings, 1, 0)
    /\ UNCHANGED <<innings, varsCategory, varsVenue, varsCrr, varsForm,
                   varsScorer, varsVenues, runrate_pc, first_run>>

NextExtract == ExtractInnings

SpecExtract == InitExtract /\ [][NextExtract]_vars

(***************************************************************************)
(* main of calculate_runrate.py: every row is read, Current_Run_Rate is    *)
(* computed for each, and the dataset is written back in place.            *)
(***************************************************************************)
crr_field == "Current_Run_Rate"

\* The header appended to on every run.
RunRateFieldnames_always_append(fieldnames) == Append(fieldnames, crr_field)

\* Lines 44-45.
RunRateFieldnames(fieldnames) ==
    IF crr_field \in Range(fieldnames) THEN fieldnames
    ELSE Append(fieldnames, crr_field)

\* Lines 48-51: calculate_crr of every row.
RowRates(rows) ==
    [i \in 1..Len(rows) |-> calculate_crr(rows[i].Over, rows[i].Ball, rows[i].Cumulative_Runs)]

\* Lines 54-57: the rows as DictWriter writes them, the float as text.
RowsWithRates(rows, rates, fieldnames) ==
    [i \in 1..Len(rows) |->
        [x \in Range(fieldnames) |->
            IF x = crr_field THEN FloatStr(rates[i].value) ELSE rows[i][x]]]

\* Lines 34-57; a ValueError of calculate_crr ends the run before the
\* dataset is opened for writing.
RunRateMain ==
    /\ runrate_pc = "start"
    /\ \E rates \in {RowRates(input_file.rows)} :
          IF \E i \in 1..Len(rates) : Raises(rates[i])
          THEN /\ runrate_pc' = "raised"
               /\ UNCHANGED input_file
          ELSE /\ runrate_pc' = "done"
               /\ \E fieldnames \in {RunRateFieldnames(input_file.fieldnames)} :
                     input_file' = [fieldnames |-> fieldnames,
                                    rows |-> RowsWithRates(input_file.rows, rates, fieldnames)]
    /\ UNCHANGED <<temp_file, varsFormLocals, varsCategory, varsVenue, varsCrr,
                   varsScorer, varsVenues, varsExtract, first_run>>

(***************************************************************************)
(* An enrichment script run on a dataset and then run again on the dataset *)
(* it left.  The datasets: for the recent-form script the innings of up to *)
(* two matches, for analyze_venues the deliveries that decide the labels,  *)
(* for calculate_runrate two ball records.                                 *)
(***************************************************************************)
\* Three matches in an order that is not the order of their dates and
\* ids: A bats in all three, two of them on one day, B in the last.
ThreeMatchRows ==
    <<Row(IntStr(9), DateStr(3, 9), "A", IntStr(6), "N/A"),
      Row(IntStr(9), DateStr(3, 9), "B", IntStr(1), "N/A"),
      Row(IntStr(8), DateStr(3, 7), "A", IntStr(1), "N/A"),
      Row(IntStr(12), DateStr(3, 7), "A", IntStr(4), "N/A"),
      Row(IntStr(8), DateStr(3, 7), "A", IntStr(0), "Wide")>>

RerunFormDatasets ==
    {MatchRows(layout, n, quick, 1) :
        layout \in Layouts, n \in 1..2, quick \in SUBSET (1..2)}
    \cup {ThreeMatchRows}

RunRateHeader == <<"Over", "Ball", "Cumulative_Runs">>

\* The rows of a run-rate dataset: a ball of the first two overs and the
\* runs scored up to it, or a row whose Cumulative_Runs is not a number.
RunRateRows ==
    [Over : {IntStr(0), IntStr(1)},
     Ball : {IntStr(1), IntStr(3), IntStr(6)},
     Cumulative_Runs : {IntStr(0), IntStr(5), IntStr(7), IntStr(11), StrNA}]

RunRateDatasets == {<<first, second>> : first \in RunRateRows, second \in RunRateRows}

InitRerun ==
    /\ IdleCategory /\ IdleVenue /\ IdleCrr /\ IdleScorer /\ IdleExtract
    /\ temp_file = NoFile /\ first_run = NoFile
    /\ FormLocalsInit /\ VenuesLocalsInit
    /\ \/ /\ form_pc = "pass1" /\ venues_pc = "idle" /\ runrate_pc = "idle"
          /\ input_file \in {[fieldnames |-> Header, rows |-> rows] : rows \in RerunFormDatasets}
       \/ /\ form_pc = "idle" /\ venues_pc = "pass1" /\ runrate_pc = "idle"
          /\ input_file \in {[fieldnames |-> VenueHeader, rows |-> rows] :
                                rows \in DatasetsOf(LabelKinds, Len(MatchFiles))}
       \/ /\ form_pc = "idle" /\ venues_pc = "idle" /\ runrate_pc = "start"
          /\ input_file \in {[fieldnames |-> RunRateHeader, rows |-> rows] : rows \in RunRateDatasets}

\* The recent-form script is started again on the dataset it wrote.
RunFormAgain ==
    /\ form_pc = "done" /\ first_run = NoFile
    /\ first_run' = input_file
    /\ form_pc' = "pass1"
    /\ all_rows' = << >>
    /\ innings_stats' = EmptyDict
    /\ batter_history' = EmptyDict
    /\ last5_sr' = << >>
    /\ UNCHANGED <<input_file, temp_file, varsCategory, varsVenue, varsCrr,
                   varsScorer, varsVenues, runrate_pc, varsExtract>>

\* analyze_venues is started again on the dataset it wrote.
RunVenuesAgain ==
    /\ venues_pc = "done" /\ first_run = NoFile
    /\ first_run' = input_file
    /\ venues_pc' = "pass1"
    /\ total_rows' = 0
    /\ venue_stats' = << >>
    /\ matches_per_venue' = << >>
    /\ venue_class' = << >>
    /\ UNCHANGED <<input_file, temp_file, varsOthersVenues>>

\* calculate_runrate is started again on the dataset it wrote.
RunRateAgain ==
    /\ runrate_pc = "done" /\ first_run = NoFile
    /\ first_run' = input_file
    /\ runrate_pc' = "start"
    /\ UNCHANGED <<input_file, temp_file, varsFormLocals, varsCategory, varsVenue,
                   varsCrr, varsScorer, varsVenues, varsExtract>>

NextRerun ==
    \/ NextForm \/ RunFormAgain
    \/ NextVenues \/ RunVenuesAgain
    \/ RunRateMain \/ RunRateAgain

SpecRerun == InitRerun /\ [][NextRerun]_vars

(***************************************************************************)
(* Properties.                                                             *)
(***************************************************************************)

\* C1: classify_venue returns Neutral for every venue whose match count is
\* below 3, whatever the ball, run and wicket counts of pace and spin.
C1_FewMatchesNeutral ==
    (cvLabel # "" /\ cvArgs.match_count < 3) => cvLabel = "Neutral"

\* A venue of two matches where only spin took wickets, and cheaply, has
\* been classified.
C1_Witness ==
    /\ cvLabel = "Neutral"
    /\ cvArgs.match_count = 2
    /\ cvArgs.pace_wickets = 0 /\ cvArgs.pace_runs > 0
    /\ cvArgs.spin_wickets > 0 /\ cvArgs.spin_runs = 0

\* C2: with match count >= 3 and both wicket counts > 0, the label is Spin
\* Friendly exactly when (spin_runs/spin_wickets)/(pace_runs/pace_wickets)
\* is below 0.85, Pace Friendly exactly when it is above 1.15, and Neutral
\* otherwise, a ratio of exactly 0.85 or 1.15 included.  The ratio is the
\* rational number: r < 17/20 is 20 * spin_runs * pace_wickets <
\* 17 * pace_runs * spin_wickets.  Stated where the ratio exists
\* (pace_runs > 0).
C2_BandOfExactRatio ==
    (/\ cvLabel # ""
     /\ cvArgs.match_count >= 3
     /\ cvArgs.pace_wickets > 0 /\ cvArgs.spin_wickets > 0
     /\ cvArgs.pace_runs > 0)
    => LET num == cvArgs.spin_runs * cvArgs.pace_wickets
           den == cvArgs.pace_runs * cvArgs.spin_wickets
       IN  cvLabel = IF 20 * num < 17 * den THEN "Spin Friendly"
                     ELSE IF 20 * num > 23 * den THEN "Pace Friendly"
                     ELSE "Neutral"

\* C3: with match count >= 3, no wickets at all gives Neutral, wickets for
\* spin only give Spin Friendly, wickets for pace only give Pace Friendly,
\* whatever the run and ball counts.
C3_ZeroWicketLabels ==
    (cvLabel # "" /\ cvArgs.match_count >= 3) =>
        /\ (cvArgs.pace_wickets = 0 /\ cvArgs.spin_wickets = 0)
              => cvLabel = "Neutral"
        /\ (cvArgs.pace_wickets = 0 /\ cvArgs.spin_wickets > 0)
              => cvLabel = "Spin Friendly"
        /\ (cvArgs.pace_wickets > 0 /\ cvArgs.spin_wickets = 0)
              => cvLabel = "Pace Friendly"

\* A venue where pace took no wicket for no runs, and spin took its wickets
\* at the highest cost, has been classified Spin Friendly.
C3_Witness ==
    /\ cvLabel = "Spin Friendly"
    /\ cvArgs.match_count >= 3
    /\ cvArgs.pace_wickets = 0 /\ cvArgs.pace_runs = 0
    /\ cvArgs.spin_wickets > 0 /\ cvArgs.spin_runs = MaxRuns

\* C4: get_bowling_category is a priority-ordered rule chain: a placeholder
\* gives Unknown; else an override decides; else a spin keyword without a
\* pace keyword gives Spin, a pace keyword without a spin keyword Pace, both
\* Spin, neither Unknown (keywords matched case-insensitively as
\* substrings); with the four results the specification lists.
HasKeyword(str, kws) ==
    \E kw \in kws : \E i \in 1..Len(str) :
        /\ i + Len(kw) - 1 <= Len(str)
        /\ \A j \in 1..Len(kw) : LowerChar(str[i + j - 1]) = kw[j]

C4_RuleChain ==
    category # "" =>
        /\ category =
              IF bowler_type \in {StrEmpty, StrNA, StrUmpire} THEN "Unknown"
              ELSE IF bowler_type \in SPIN_OVERRIDES THEN "Spin"
              ELSE IF HasKeyword(bowler_type, SPIN_KEYWORDS) THEN "Spin"
              ELSE IF HasKeyword(bowler_type, PACE_KEYWORDS) THEN "Pace"
              ELSE "Unknown"
        /\ bowler_type = ArmRight \o StyleOffbreak => category = "Spin"
        /\ bowler_type = ArmRight \o StyleFastMedium => category = "Pace"
        /\ bowler_type = OverrideFastMediumOrthodox => category = "Spin"
        /\ bowler_type = StrEmpty => category = "Unknown"

\* A description naming a pace and a spin style that is no override has
\* been classified.
C4_Witness ==
    /\ bowler_type = ArmRight \o StyleFast \o StrComma \o StyleLegbreak
    /\ bowler_type \notin SPIN_OVERRIDES
    /\ category = "Spin"

\* C6: calculate_crr returns 0.0 when over * 6 + ball is 0, and otherwise
\* cumulative_runs / ((over * 6 + ball) / 6) rounded to 2 decimals: the
\* float of a number of hundredths h within half a hundredth of the exact
\* quotient 6 * runs / balls.  (0, 0, 0) gives 0.0 and (1, 0, 6) gives 6.0;
\* for non-negative inputs the result is a non-negative float, never an
\* error.
C6_Numeric ==
    ~Raises(PyInt(crrArgs.over)) /\ ~Raises(PyInt(crrArgs.ball))
        /\ ~Raises(PyInt(crrArgs.cumulative_runs))

C6_RunRate ==
    (crrOut # NoArgs /\ C6_Numeric) =>
        LET balls == PyInt(crrArgs.over).value * 6 + PyInt(crrArgs.ball).value
            runs  == PyInt(crrArgs.cumulative_runs).value
        IN  /\ ~Raises(crrOut)
            /\ crrOut.value.s = 0
            /\ balls = 0 => crrOut.value = FZero
            /\ balls > 0 =>
                 \E h \in {(600 * runs) \div balls, (600 * runs) \div balls + 1} :
                    /\ crrOut.value = FRat(h, 100)
                    /\ 2 * (h * balls - 600 * runs) <= balls
                    /\ 2 * (600 * runs - h * balls) <= balls
            /\ (balls = 6 /\ runs = 6) => crrOut.value = FInt(6)

\* 10 runs off 7 balls: 60/7 = 8.571428... has been returned as 8.57.
C6_Witness ==
    /\ crrArgs # NoArgs
    /\ crrArgs.over = <<"1">> /\ crrArgs.ball = <<"1">>
    /\ crrArgs.cumulative_runs = <<"1", "0">>
    /\ crrOut = [value |-> FRat(857, 100)]

\* C5: after a run, every (match, batter) pair of the input has a
\* recent-form value, on every one of its rows: the strike rate over the up
\* to 5 innings of the batter that immediately precede the match in (date,
\* file id) order, the match's own innings never among them: the sum of
\* their runs over the sum of their balls, times 100, rounded to 2 decimals
\* (the float of a number of hundredths h within half a hundredth of the
\* exact value), and 0.0 when there is no such innings or their balls sum
\* to zero.  A window of 70 runs off 50 balls gives 140.0.
C5_Pairs == {<<all_rows[i].File, all_rows[i].Batter>> : i \in 1..Len(all_rows)}

C5_DateOf(f) ==
    all_rows[CHOOSE i \in 1..Len(all_rows) : all_rows[i].File = f].Match_Date

C5_Before(g, f) == KeyLess(<<C5_DateOf(g), g>>, <<C5_DateOf(f), f>>)

C5_Prev(f, b) == {p[1] : p \in {q \in C5_Pairs : q[2] = b /\ C5_Before(q[1], f)}}

C5_Window(f, b) ==
    {g \in C5_Prev(f, b) :
        Cardinality({g2 \in C5_Prev(f, b) : C5_Before(g, g2)}) < 5}

RECURSIVE C5_Runs(_, _, _, _)
C5_Runs(files, b, lo, hi) ==
    IF lo > hi THEN 0
    ELSE IF lo = hi
    THEN (IF all_rows[lo].File \in files /\ all_rows[lo].Batter = b
          THEN PyInt(all_rows[lo].Batter_Runs).value ELSE 0)
    ELSE C5_Runs(files, b, lo, (lo + hi) \div 2)
         + C5_Runs(files, b, ((lo + hi) \div 2) + 1, hi)

C5_Balls(files, b) ==
    Cardinality({i \in 1..Len(all_rows) :
                    /\ all_rows[i].File \in files /\ all_rows[i].Batter = b
                    /\ all_rows[i].Extras_Type # "Wide"})

C5_Decimal(h) ==
    IntStr(h \div 100) \o <<".">> \o
    (IF h % 10 = 0 THEN <<Digits[((h \div 10) % 10) + 1]>>
     ELSE <<Digits[((h \div 10) % 10) + 1], Digits[(h % 10) + 1]>>)

C5_ValueOf(f, b, value, text) ==
    LET window == C5_Window(f, b)
        runs   == C5_Runs(window, b, 1, Len(all_rows))
        balls  == C5_Balls(window, b)
        floor  == (10000 * runs) \div balls
    IN  /\ balls = 0 => value = FZero /\ text = <<"0", ".", "0">>
        /\ balls > 0 =>
             \E h \in {floor, floor + 1} :
                /\ 2 * (h * balls - 10000 * runs) <= balls
                /\ 2 * (10000 * runs - h * balls) <= balls
                /\ value = FRat(h, 100)
                /\ text = C5_Decimal(h)
        /\ (Cardinality(window) = 5 /\ runs = 70 /\ balls = 50)
             => value = FInt(140) /\ text = <<"1", "4", "0", ".", "0">>

C5_RecentForm ==
    form_pc = "done" =>
        /\ Len(input_file.rows) = Len(all_rows)
        /\ C5_Pairs \subseteq DOMAIN last5_sr
        /\ \A i \in 1..Len(all_rows) :
              LET row == input_file.rows[i]
              IN  /\ row.File = all_rows[i].File
                  /\ row.Batter = all_rows[i].Batter
                  /\ new_field \in DOMAIN row
                  /\ C5_ValueOf(row.File, row.Batter,
                                last5_sr[<<row.File, row.Batter>>],
                                row[new_field])

\* A run has finished on a dataset where a batter has more than 5 earlier
\* innings, so that the window leaves the earliest out, and the value is
\* not zero.
C5_Witness ==
    /\ form_pc = "done"
    /\ \E p \in C5_Pairs :
          /\ Cardinality(C5_Prev(p[1], p[2])) > 5
          /\ Cardinality(C5_Window(p[1], p[2])) = 5
          /\ last5_sr[p] # FZero

\* A request whose handler returned a ranking.
Ranked(r) == scorer_pc[r] = "done" /\ ~Raises(response[r])

\* The scoring policy on a probability row, written from its statement:
\* Boundary * 1.5 + Rotation - Pressure, the three as percentages.
PolicyScore(row) ==
    XSub(XAdd(XMul(XMul(XVal(row[3]), XInt(100)), XRat(3, 2)),
              XMul(XVal(row[2]), XInt(100))),
         XMul(XVal(row[1]), XInt(100)))

PolicyValues(row) ==
    LET terms == [score |-> PolicyScore(row), kept |-> XNpRound2(PolicyScore(row))]
    IN  [k \in DOMAIN terms |-> FEval(terms[k])]

\* C7: for the candidate at input position i, the tactical score the loop
\* computes is 1.5 * Boundary + 1.0 * Rotation - 1.0 * Pressure of row i of
\* the one batch prediction, the three as percentages; result i carries the
\* name of candidate i and that score at the two decimals main.py keeps.
C7_ScoreOfOwnRow ==
    Ranked(1) =>
        /\ Len(results[1]) = Len(request[1].available_batters)
        /\ Len(probs[1]) = Len(request[1].available_batters)
        /\ \A i \in 1..Len(results[1]) :
              /\ results[1][i].Batter = request[1].available_batters[i]["name"]
              /\ LocalsOf(probs[1][i]).tactical_score = PolicyValues(probs[1][i]).score
              /\ results[1][i].Tactical_Score = PolicyValues(probs[1][i]).kept

\* Three candidates answered with three different rows, one of them the
\* row in sixteenths, whose score 90.625 is kept as 90.62.
C7_Witness ==
    /\ Ranked(1)
    /\ Len(results[1]) = 3
    /\ \A i, j \in 1..3 : probs[1][i] = probs[1][j] => i = j
    /\ \E i \in 1..3 : results[1][i].Tactical_Score # LocalsOf(probs[1][i]).tactical_score

\* The probability vectors of the worked example, candidates 1, 2, 3.
ExampleFractions == << <<5, 3, 2>>, <<1, 3, 6>>, <<3, 3, 4>> >>
ExampleProbs == [i \in 1..3 |-> ProbRow(ExampleFractions[i], 10)]

\* The output order of the example: candidate 2, candidate 3, candidate 1.
ExampleOrder == <<2, 3, 1>>

\* The example with the given whole-number scores of candidates 1, 2, 3.
ExampleHolds(scores) ==
    (Ranked(1) /\ probs[1] = ExampleProbs) =>
        /\ \A i \in 1..3 : results[1][i].Tactical_Score = FInt(scores[i])
        /\ Len(response[1].value) = 3
        /\ \A k \in 1..3 :
              /\ response[1].value[k].Rank = k
              /\ response[1].value[k].Batter = request[1].available_batters[ExampleOrder[k]]["name"]
              /\ response[1].value[k].Middle_Over_Score = FInt(scores[ExampleOrder[k]])

\* C8 (as amended): three candidates whose probability vectors (Pressure,
\* Strike Rotation, Boundary) are [0.5,0.3,0.2], [0.1,0.3,0.6] and
\* [0.3,0.3,0.4] get Tactical Scores 10.0, 110.0 and 60.0 and come out in
\* the order candidate 2, candidate 3, candidate 1 with ranks 1, 2, 3.
C8_ExampleScores == ExampleHolds(<<10, 110, 60>>)

\* C8 (as stated): the same candidates get Tactical Scores 10.0, 50.0 and
\* 30.0 and come out in the order candidate 2, candidate 3, candidate 1
\* with ranks 1, 2, 3.
C8_ExampleAsStated == ExampleHolds(<<10, 50, 30>>)

\* The example has been scored, for candidates named A, B, A.
C8_Witness ==
    /\ Ranked(1)
    /\ probs[1] = ExampleProbs
    /\ request[1].available_batters[1]["name"] # request[1].available_batters[2]["name"]
    /\ response[1].value[1].Batter = "B"

\* Output entry k is input candidate i: the name of candidate i and the
\* numbers of result i, to two decimals.
IsCandidate(entry, i) ==
    /\ entry.Batter = request[1].available_batters[i]["name"]
    /\ entry.Middle_Over_Score = PyRound2(results[1][i].Tactical_Score)
    /\ LET numbers == [k \in {"Boundary_Prob", "Strike_Rotation", "Pressure_Prob"} |-> results[1][i][k]]
       IN  \A k \in DOMAIN numbers : entry[k] = PyRound2(numbers[k])

\* C9: for every non-empty candidate list, repeated names included, the
\* response is a permutation of the input candidates (each appears exactly
\* once), in non-increasing order of Middle_Over_Score, and the entry at
\* 1-based position k carries Rank k.
C9_RankedPermutation ==
    (Ranked(1) /\ Len(request[1].available_batters) > 0) =>
        LET out == response[1].value
            n   == Len(request[1].available_batters)
        IN  /\ Len(out) = n
            /\ \E o \in OrdersOf(n) : \A k \in 1..n : IsCandidate(out[k], o[k])
            /\ \A k \in 1..(n - 1) : FGe(out[k].Middle_Over_Score, out[k + 1].Middle_Over_Score)
            /\ \A k \in 1..n : out[k].Rank = k

\* Three candidates, two of them of one name, with three different scores,
\* the first in the input scored lowest.
C9_Witness ==
    /\ Ranked(1)
    /\ Len(response[1].value) = 3
    /\ request[1].available_batters[1]["name"] = request[1].available_batters[3]["name"]
    /\ FGt(results[1][2].Tactical_Score, results[1][3].Tactical_Score)
    /\ FGt(results[1][3].Tactical_Score, results[1][1].Tactical_Score)
    /\ response[1].value[3].Rank = 3

\* C10: candidates whose Tactical Scores are exactly equal appear in the
\* output in the same relative order as in the input candidate list: the
\* sorted frame is the one a stable descending sort of the results gives.
C10_StableTies ==
    Ranked(1) => results_df[1] \in StableSortedFrames(results[1])

\* The candidates of the posted body that give no sr.
WithoutSR(r) ==
    {i \in 1..Len(request[r].available_batters) : "sr" \notin DOMAIN request[r].available_batters[i]}

\* The position of a column in the loaded column list.
ColumnIndex(name) == CHOOSE j \in 1..Len(training_columns) : training_columns[j] = name

\* C11: when a candidate supplies no recent-form strike rate, the scorer
\* builds that candidate's feature row with recent strike rate 100.0 and
\* still scores and returns the candidate.  Stated for requests whose rows
\* have every column the model was trained on.
C11_DefaultStrikeRate ==
    (/\ scorer_pc[1] = "done"
     /\ training_columns = TrainingColumns
     /\ WithoutSR(1) # {})
    => /\ Ranked(1)
       /\ Len(response[1].value) = Len(request[1].available_batters)
       /\ \A i \in WithoutSR(1) :
             /\ sim_df[1][i][ColumnIndex("Batter_Last5_SR")] = DefaultSR
             /\ \E k \in 1..Len(response[1].value) :
                   response[1].value[k].Batter = request[1].available_batters[i]["name"]

\* The posted body carries a field MatchScenario does not declare.
CarriesUndeclared(r) == DOMAIN request[r] \ (ScenarioFields \cup {"available_batters"}) # {}

\* The loaded column list names a column the built rows do not have.
LacksTrainingColumn(r) ==
    \E j \in 1..Len(training_columns) :
        training_columns[j] \notin (ScenarioFields \cup {"Batter", "Batter_Last5_SR", "Batter_vs_BowlerType_SR"})

\* C12: if the feature rows built for a request do not match the model's
\* training-column schema, a training column missing from the rows or the
\* scenario carrying a column that is not in the schema, scoring fails with
\* an error surfaced to the caller, the model is not called and no ranking
\* is returned.
C12_SchemaMismatchFails ==
    (/\ scorer_pc[1] = "done"
     /\ (LacksTrainingColumn(1) \/ CarriesUndeclared(1)))
    => /\ Raises(response[1])
       /\ probs[1] = << >>
       /\ results[1] = << >>

\* C15: after venue enrichment every delivery row carries a Venue_Type
\* that is one of Spin Friendly, Pace Friendly or Neutral, all rows of one
\* venue carry the same label, and a venue absent from the computed label
\* map is labelled Neutral; the run does not fail for it.
C15_VenueTypeOnEveryRow ==
    venues_pc = "done" =>
        /\ venue_field \in Range(input_file.fieldnames)
        /\ \A i \in 1..Len(input_file.rows) :
              /\ venue_field \in DOMAIN input_file.rows[i]
              /\ input_file.rows[i].Venue_Type \in {"Spin Friendly", "Pace Friendly", "Neutral"}
              /\ input_file.rows[i].Venue \notin DOMAIN venue_class
                    => input_file.rows[i].Venue_Type = "Neutral"
        /\ \A i, j \in 1..Len(input_file.rows) :
              input_file.rows[i].Venue = input_file.rows[j].Venue
                  => input_file.rows[i].Venue_Type = input_file.rows[j].Venue_Type

\* A venue whose deliveries, of two matches, all have an Unknown bowler
\* type is in no label map, and its rows have been written.
C15_Witness ==
    /\ venues_pc = "done"
    /\ Len(input_file.rows) = MaxDeliveries
    /\ DOMAIN venue_class = {}
    /\ Cardinality({input_file.rows[i].File : i \in 1..Len(input_file.rows)}) = 2
    /\ \A i \in 1..Len(input_file.rows) : input_file.rows[i].Venue_Type = "Neutral"

\* The rows pass 1 has aggregated that are deliveries of a bowling category
\* at a venue.
Aggregated(venue, bowling) ==
    {i \in 1..total_rows :
        /\ input_file.rows[i].Venue = venue
        /\ get_bowling_category(input_file.rows[i].Bowler_Type) = bowling}

DatasetVenues == {input_file.rows[i].Venue : i \in 1..Len(input_file.rows)}

\* The run of analyze_venues is in or past pass 1 and has not failed.
Aggregating == venues_pc \in {"pass1", "pass2", "write", "done"}

\* C18: during venue aggregation, for every Extras_Type value the
\* extraction step writes (N/A, Wide, No Ball, Bye, Leg Bye), a Pace or Spin
\* delivery increments its bowling type's ball count exactly when it is
\* neither a wide nor a no-ball: the ball count of a venue and type is the
\* number of its aggregated deliveries that are neither.
C18_BallCountSkipsWidesAndNoBalls ==
    Aggregating =>
        \A venue \in DatasetVenues : \A bowling \in {"Pace", "Spin"} :
            GetOr(venue_stats, venue, NewVenueStats)[bowling][1] =
                Cardinality({i \in Aggregated(venue, bowling) :
                    input_file.rows[i].Extras_Type \notin {ExtrasWide, ExtrasNoBall}})

RECURSIVE SumOfRuns(_)
SumOfRuns(rows) ==
    IF rows = {} THEN 0
    ELSE LET i == CHOOSE i \in rows : TRUE
         IN  PyInt(input_file.rows[i].Total_Runs_This_Ball).value + SumOfRuns(rows \ {i})

\* C19: after any prefix of deliveries has been aggregated, each delivery
\* has contributed to at most one of the Pace and Spin buckets of its own
\* venue and to no other venue: a bucket holds the balls, runs and wickets
\* of the aggregated deliveries of its venue and category and nothing
\* else, so a delivery of Unknown bowler type changes no counter.  The
\* match set of a venue is the set of the matches of all its aggregated
\* deliveries, those of Unknown bowler type included.
C19_OneBucketAndEveryMatch ==
    Aggregating =>
        /\ \A venue \in DOMAIN venue_stats : \E bowling \in {"Pace", "Spin"} :
              Aggregated(venue, bowling) # {}
        /\ \A venue \in DatasetVenues :
              /\ GetOr(matches_per_venue, venue, {}) =
                    {input_file.rows[i].File :
                        i \in {i \in 1..total_rows : input_file.rows[i].Venue = venue}}
              /\ \A bowling \in {"Pace", "Spin"} :
                    GetOr(venue_stats, venue, NewVenueStats)[bowling] =
                        <<Cardinality({i \in Aggregated(venue, bowling) : is_legal(input_file.rows[i])}),
                          SumOfRuns(Aggregated(venue, bowling)),
                          Cardinality({i \in Aggregated(venue, bowling) : is_wicket(input_file.rows[i])})>>

\* Two matches at a venue have been aggregated: one whose only delivery is
\* of Unknown bowler type, with a run and a wicket, and one with a delivery
\* of a fast bowler.
C19_Witness ==
    /\ venues_pc = "pass1"
    /\ total_rows = 2
    /\ get_bowling_category(input_file.rows[1].Bowler_Type) = "Unknown"
    /\ input_file.rows[1].Wicket = "Yes"
    /\ get_bowling_category(input_file.rows[2].Bowler_Type) = "Pace"
    /\ input_file.rows[1].File # input_file.rows[2].File
    /\ Cardinality(matches_per_venue["Eden Gardens"]) = 2
    /\ venue_stats["Eden Gardens"].Pace[2] = 4

\* The runs part of C20 alone: a venue's pace_runs + spin_runs is the sum
\* of Total_Runs_This_Ball over its aggregated deliveries of known type.
RunsAlwaysCounted ==
    Aggregating =>
        \A venue \in DatasetVenues :
            GetOr(venue_stats, venue, NewVenueStats).Pace[2]
              + GetOr(venue_stats, venue, NewVenueStats).Spin[2]
            = SumOfRuns(Aggregated(venue, "Pace") \cup Aggregated(venue, "Spin"))

\* C20: every Pace or Spin delivery adds its total runs to its bowling
\* type's runs conceded regardless of legality: after any prefix of
\* deliveries a venue's pace_runs + spin_runs is the sum of
\* Total_Runs_This_Ball over all its deliveries of known type, wides and
\* no-balls included, while the ball counts count only the legal ones,
\* those that are neither a wide nor a no-ball.
C20_RunsAlwaysBallsIfLegal ==
    /\ RunsAlwaysCounted
    /\ Aggregating =>
          \A venue \in DatasetVenues :
              GetOr(venue_stats, venue, NewVenueStats).Pace[1]
                + GetOr(venue_stats, venue, NewVenueStats).Spin[1]
              = Cardinality({i \in Aggregated(venue, "Pace") \cup Aggregated(venue, "Spin") :
                    input_file.rows[i].Extras_Type \notin {ExtrasWide, ExtrasNoBall}})

\* The deliveries among the first i records that are neither a wide nor a
\* no-ball.
LegalSoFar(i) ==
    Cardinality({j \in 1..i : csv_data[j].Extras_Type \notin {ExtrasWide, ExtrasNoBall}})

\* C16: in the dataset the extraction step produces, Over and Ball are
\* legal-delivery counts: a wide or no-ball does not advance Ball, so Ball
\* never exceeds 6 within an over, and over * 6 + ball, which the run-rate
\* calculation uses, is the number of legal balls bowled so far in the
\* innings.
C16_BallCountsLegalDeliveries ==
    csv_data # NoFile =>
        \A i \in 1..Len(csv_data) :
            /\ csv_data[i].Ball <= 6
            /\ csv_data[i].Over * 6 + csv_data[i].Ball = LegalSoFar(i)

\* The run of calculate_batter_recent_form has ended, one way or the other.
FormEnded == form_pc \in {"done", "raised"}

\* C14: a delivery row whose numeric source field is empty, a placeholder
\* or non-numeric is treated with the zero default: the enrichment run
\* still completes and writes a value for every row of the dataset instead
\* of aborting.  Stated for the recent-form step and its Batter_Runs field.
C14_BadFieldDoesNotAbort ==
    FormEnded =>
        /\ form_pc = "done"
        /\ \A i \in 1..Len(input_file.rows) : new_field \in DOMAIN input_file.rows[i]

\* The column derived by the script under run.
derived_field ==
    IF form_pc # "idle" THEN new_field
    ELSE IF venues_pc # "idle" THEN venue_field
    ELSE crr_field

\* The number of columns of a header that carry a name.
Copies(fieldnames, name) ==
    Cardinality({i \in 1..Len(fieldnames) : fieldnames[i] = name})

\* The second run of the script has ended.
SecondRunEnded ==
    /\ first_run # NoFile
    /\ form_pc = "done" \/ venues_pc = "done" \/ runrate_pc = "done"

\* C13: when the venue, recent-form or run-rate script has been run a second
\* time on the dataset its first run left, the header carries exactly one
\* copy of the derived column and every row carries the derived value the
\* first run wrote.
C13_SecondRunSameColumn ==
    SecondRunEnded =>
        /\ Copies(input_file.fieldnames, derived_field) = 1
        /\ Len(input_file.rows) = Len(first_run.rows)
        /\ \A i \in 1..Len(input_file.rows) :
              input_file.rows[i][derived_field] = first_run.rows[i][derived_field]

\* A venue labelled Spin Friendly by both runs of analyze_venues.
C13_Witness ==
    /\ SecondRunEnded
    /\ venues_pc = "done"
    /\ \E i \in 1..Len(first_run.rows) : first_run.rows[i][venue_field] = "Spin Friendly"

\* The responses optimize_order can give a body when no other request is
\* in flight.
AloneResponses(body) ==
    IF ~ValidBody(body) THEN {[raise |-> RequestValidationError]}
    ELSE LET batch == SelectColumns(simulations(scenario_dict(body), batters_list(body)), training_columns)
         IN  IF Raises(batch) THEN {batch}
             ELSE {[value |-> optimized_order(frame)] :
                      frame \in UNION {SortedFrames(ResultsOf(batters_list(body), p)) :
                                          p \in Predictions(batch.value)}}

\* What a request has built so far is what its own body and its own
\* earlier steps give.
OwnLocals(r) ==
    /\ scorer_pc[r] \in {"built", "predicted", "ranked"} =>
          [value |-> sim_df[r]] = SelectColumns(simulations(scenario_dict(request[r]), batters_list(request[r])), training_columns)
    /\ scorer_pc[r] \in {"predicted", "ranked"} => probs[r] \in Predictions(sim_df[r])
    /\ scorer_pc[r] = "ranked" =>
          /\ results[r] = ResultsOf(batters_list(request[r]), probs[r])
          /\ results_df[r] \in SortedFrames(results[r])
    /\ scorer_pc[r] = "done" => response[r] \in AloneResponses(request[r])

\* A step of one request leaves the other's body, rows, probabilities,
\* results and response as they were, and no step after start-up writes
\* model or training_columns.
Isolated ==
    /\ \A r \in Requests :
          scorer_pc'[r] = scorer_pc[r] =>
              /\ request'[r] = request[r]
              /\ sim_df'[r] = sim_df[r]
              /\ probs'[r] = probs[r]
              /\ results'[r] = results[r]
              /\ results_df'[r] = results_df[r]
              /\ response'[r] = response[r]
    /\ model # {} => model' = model /\ training_columns' = training_columns

\* C17: of two requests handled concurrently, each gets a response it could
\* get when handled alone, each step works on the rows, probabilities and
\* results of its own call and never changes the other's, and model and
\* training_columns are not written once loaded.
C17_ConcurrentRequestsIndependent ==
    /\ [](\A r \in Requests : OwnLocals(r))
    /\ [][Isolated]_vars

\* Both calls in the middle of the handler at once: the first with the
\* probabilities of its two rows, the second with the sorted frame of its
\* one row.
C17_Witness ==
    /\ scorer_pc[1] = "predicted" /\ Len(probs[1]) = 2
    /\ scorer_pc[2] = "ranked" /\ Len(results_df[2]) = 1
    /\ sim_df[1] # sim_df[2]

\* The dismissals that are not the bowler's.
UncreditedModes == {StrRunOut, StrRetired, StrObstructing}

\* C21: during venue aggregation the wicket count of a venue and bowling
\* type is the number of its aggregated deliveries whose Wicket field is
\* none of No, 0, the empty string and N/A and whose wicket mode, in lower
\* case, contains none of "run out", "retired" and "obstructing".
C21_WicketsCreditedToBowler ==
    Aggregating =>
        \A venue \in DatasetVenues : \A bowling \in {"Pace", "Spin"} :
            GetOr(venue_stats, venue, NewVenueStats)[bowling][3] =
                Cardinality({i \in Aggregated(venue, bowling) :
                    /\ input_file.rows[i].Wicket \notin {"No", "0", "", "N/A"}
                    /\ \A mode \in UncreditedModes :
                          ~StrContains(StrLower(input_file.rows[i].Wicket_Mode), mode)})

\* Pass 1 is over for a run out, a retirement and a wicket with no mode
\* given: only the last is counted, for Spin.
C21_Witness ==
    /\ venues_pc = "pass2"
    /\ total_rows = 3
    /\ input_file.rows[1].Wicket_Mode = ModeRunOutTitle
    /\ input_file.rows[2].Wicket_Mode = ModeRetiredHurt
    /\ input_file.rows[3].Wicket = "Yes" /\ input_file.rows[3].Wicket_Mode = StrNA
    /\ venue_stats["Eden Gardens"].Pace[3] = 0
    /\ venue_stats["Eden Gardens"].Spin[3] = 1

\* The rows pass 1 has folded into the record of a (match, batter) pair.
Folded(key) ==
    {i \in 1..Len(all_rows) : <<all_rows[i].File, all_rows[i].Batter>> = key}

RECURSIVE SumOfBatterRuns(_)
SumOfBatterRuns(rows) ==
    IF rows = {} THEN 0
    ELSE LET i == CHOOSE i \in rows : TRUE
         IN  PyInt(all_rows[i].Batter_Runs).value + SumOfBatterRuns(rows \ {i})

\* C22: after any prefix of deliveries has been folded, the record of each
\* (match, batter) pair holds the sum of Batter_Runs of its deliveries, and
\* as balls the number of its deliveries less those whose Extras_Type is
\* "Wide": a no-ball, a bye and a leg bye each count as a ball faced.
C22_InningsFold ==
    form_pc # "raised" =>
        /\ DOMAIN innings_stats.val = {<<all_rows[i].File, all_rows[i].Batter>> : i \in 1..Len(all_rows)}
        /\ \A key \in DOMAIN innings_stats.val :
              /\ innings_stats.val[key].runs = SumOfBatterRuns(Folded(key))
              /\ innings_stats.val[key].balls =
                    Cardinality(Folded(key))
                      - Cardinality({i \in Folded(key) : all_rows[i].Extras_Type = "Wide"})

\* An innings of six deliveries folded, two of them wides and one each a
\* no-ball, a bye and a leg bye: four balls faced.
C22_Witness ==
    /\ form_pc = "pass1"
    /\ Len(all_rows) = 6
    /\ {all_rows[i].Extras_Type : i \in 1..6} = {"N/A", "Wide", "No Ball", "Bye", "Leg Bye"}
    /\ innings_stats.val[<<all_rows[1].File, "A">>].balls = 4
    /\ innings_stats.val[<<all_rows[1].File, "A">>].runs = 3

\* The histories have been built and sorted.
HistoriesSorted == form_pc \in {"last5", "pass2", "write", "done"}

\* Entry x is of the same date as entry y and of the smaller match id, the
\* ids compared as Python compares the two File strings.
SameDateSmallerId(x, y) == x[1] = y[1] /\ StrLess(x[2], y[2])

\* C23: each batter's innings are in ascending order of (date, match id),
\* and of two innings of a batter on one date the one of the smaller match
\* id is the earlier: it precedes the other, it is in the other's window
\* when at most WindowSize places before it, and the other is not in its
\* window.  The order is strict, so the same data give the same order on
\* every run.
C23_SameDateOrderedById ==
    HistoriesSorted =>
        \A b \in DOMAIN batter_history.val :
            LET h == batter_history.val[b]
            IN  /\ \A i \in 1..Len(h) : \A j \in (i + 1)..Len(h) :
                      StrLess(h[i][1], h[j][1]) \/ SameDateSmallerId(h[i], h[j])
                /\ \A i \in 1..Len(h) : \A j \in 1..Len(h) :
                      SameDateSmallerId(h[i], h[j]) =>
                          /\ i < j
                          /\ j - i <= WindowSize => h[i] \in Range(Last5Window(h, j - 1))
                          /\ h[j] \notin Range(Last5Window(h, i - 1))

\* A batter with two innings on one date, the second in the file having the
\* id that compares smaller, and another innings between them in the file.
C23_Witness ==
    /\ form_pc = "last5"
    /\ \E b \in DOMAIN batter_history.val :
          LET h == batter_history.val[b]
          IN  \E i \in 1..Len(h) : \E j \in 1..Len(h) :
                 /\ SameDateSmallerId(h[i], h[j])
                 /\ \E m, n \in 1..Len(all_rows) :
                       /\ m < n
                       /\ all_rows[m].File = h[j][2]
                       /\ all_rows[n].File = h[i][2]

\* An output row of the script under run has been written.
RowWritten ==
    \/ venues_pc = "done" \/ form_pc = "done"
    \/ /\ venues_pc = "write" \/ form_pc = "write"
       /\ Len(temp_file.rows) > 0

\* Pass 1 of analyze_venues has aggregated every row and every venue with
\* a Pace or Spin delivery has its label.
VenuePassOneComplete ==
    /\ total_rows = Len(input_file.rows)
    /\ DOMAIN venue_class =
          {venue \in DatasetVenues : \E bowling \in {"Pace", "Spin"} : Aggregated(venue, bowling) # {}}
    /\ \A venue \in DOMAIN venue_class : venue_class[venue] \in VenueLabels

\* Pass 1 of the recent-form script has folded every row and every
\* (match, batter) pair has its value.
FormPassOneComplete ==
    /\ Len(all_rows) = Len(input_file.rows)
    /\ DOMAIN innings_stats.val = {<<all_rows[i].File, all_rows[i].Batter>> : i \in 1..Len(all_rows)}
    /\ DOMAIN last5_sr = DOMAIN innings_stats.val

\* A step of the write pass leaves the aggregates and the maps as they are.
WritePassReadsOnly ==
    /\ venues_pc = "write" =>
          /\ venue_class' = venue_class
          /\ venue_stats' = venue_stats
          /\ matches_per_venue' = matches_per_venue
    /\ form_pc = "write" =>
          /\ last5_sr' = last5_sr
          /\ innings_stats' = innings_stats
          /\ batter_history' = batter_history

\* C24: in venue and recent-form enrichment no output row is written
\* before every delivery has been folded into the aggregates and every
\* label or value has been computed, and the steps of the write pass leave
\* the label map, the recent-form map and the aggregates unchanged: the
\* lookup of a venue that has no label inserts nothing.
C24_WriteAfterAggregation ==
    /\ [](RowWritten =>
            /\ venues_pc # "idle" => VenuePassOneComplete
            /\ form_pc # "idle" => FormPassOneComplete)
    /\ [][WritePassReadsOnly]_vars

\* analyze_venues has written the row of a venue that has no label, as
\* Neutral, and the label map still has no entry for it.
C24_Witness ==
    /\ venues_pc = "write"
    /\ Len(temp_file.rows) > 0
    /\ temp_file.rows[1].Venue \notin DOMAIN venue_class
    /\ temp_file.rows[1][venue_field] = "Neutral"
    /\ DOMAIN venue_class # {}

MaxPermuted == 5

\* The orders the rows of a file of n rows can be in.
Orders(n) == {p \in [1..n -> 1..n] : \A i, j \in 1..n : p[i] = p[j] => i = j}

Reordered(rows, p) == [i \in 1..Len(rows) |-> rows[p[i]]]

\* Lines 35-54 of the recent-form script on every row from the i-th on.
RECURSIVE FoldRows(_, _, _)
FoldRows(stats, rows, i) ==
    IF i > Len(rows) THEN [stats |-> stats]
    ELSE LET after == fold_row(stats, rows[i])
         IN  IF Raises(after) THEN after ELSE FoldRows(after.stats, rows, i + 1)

\* Lines 28-88: the innings and the recent-form values the script computes
\* from the rows.
FormOf(rows) ==
    LET after == FoldRows(EmptyDict, rows, 1)
    IN  IF Raises(after) THEN [raise |-> after.raise]
        ELSE [innings |-> after.stats.val,
              last5   |-> Last5Map(SortedHistories(after.stats))]

\* Lines 106-132 of analyze_venues on every row from the i-th on.
RECURSIVE AggregateRows(_, _, _, _)
AggregateRows(stats, matches, rows, i) ==
    IF i > Len(rows) THEN [stats |-> stats, matches |-> matches]
    ELSE LET after == aggregate_row(stats, matches, rows[i])
         IN  IF Raises(after) THEN after
             ELSE AggregateRows(after.stats, after.matches, rows, i + 1)

\* Lines 98-142: the aggregates and the labels analyze_venues computes.
VenuesOf(rows) ==
    LET after == AggregateRows(<< >>, << >>, rows, 1)
    IN  IF Raises(after) THEN [raise |-> after.raise]
        ELSE [stats |-> after.stats, matches |-> after.matches,
              labels |-> BuildVenueClass(after.stats, after.matches)]

\* All rows of a match carry one date.
OneDatePerMatch(rows) ==
    \A i, j \in 1..Len(rows) :
        rows[i].File = rows[j].File => rows[i].Match_Date = rows[j].Match_Date

FormComputed ==
    /\ form_pc = "pass2"
    /\ Len(input_file.rows) <= MaxPermuted
    /\ OneDatePerMatch(input_file.rows)

VenuesComputed == venues_pc = "pass2"

\* C25: for a dataset in which all rows of a match carry the same date,
\* the venue aggregates, the venue labels and the recent-form value of
\* every (match, batter) pair are the same for every permutation of the
\* delivery rows.
C25_RowOrderIrrelevant ==
    /\ FormComputed =>
          \A p \in Orders(Len(input_file.rows)) :
              FormOf(Reordered(input_file.rows, p)) =
                 [innings |-> innings_stats.val, last5 |-> last5_sr]
    /\ VenuesComputed =>
          \A p \in Orders(Len(input_file.rows)) :
              VenuesOf(Reordered(input_file.rows, p)) =
                 [stats |-> venue_stats, matches |-> matches_per_venue,
                  labels |-> venue_class]

\* The recent-form values of the three matches given out of order: A's
\* second and third innings have a value that is not zero.
C25_Witness ==
    /\ FormComputed
    /\ Len(input_file.rows) = 5
    /\ input_file.rows[1].File = IntStr(9)
    /\ last5_sr[<<IntStr(9), "A">>] # FZero
    /\ last5_sr[<<IntStr(8), "A">>] # FZero
    /\ last5_sr[<<IntStr(12), "A">>] = FZero

\* C26: classify_venue returns one of the three labels, and never fails,
\* for every combination of non-negative ball, run and wicket counts and
\* match count, including a venue with match count >= 3 where a bowling
\* type has taken wickets but conceded zero runs.
C26_ClassifyNeverFails == cvLabel # "" => cvLabel \in VenueLabels

\* The label of the venue of cvArgs with the Pace and the Spin aggregate
\* exchanged, the match count kept.
SwappedLabel ==
    classify_venue(cvArgs.spin_balls, cvArgs.spin_runs, cvArgs.spin_wickets,
                   cvArgs.pace_balls, cvArgs.pace_runs, cvArgs.pace_wickets,
                   cvArgs.match_count)

Mirror(label) ==
    IF label = "Spin Friendly" THEN "Pace Friendly"
    ELSE IF label = "Pace Friendly" THEN "Spin Friendly"
    ELSE label

\* The label is decided before the ratio is computed.
DecidedByCounts ==
    \/ cvArgs.match_count < MinMatches
    \/ cvArgs.pace_wickets = 0
    \/ cvArgs.spin_wickets = 0

\* C27 as stated: venue classification is mirror-symmetric: for the same
\* match count, swapping the Pace aggregate with the Spin aggregate turns
\* Spin Friendly into Pace Friendly, Pace Friendly into Spin Friendly, and
\* leaves Neutral as Neutral.
C27_MirrorSymmetric ==
    cvLabel \in VenueLabels => SwappedLabel = Mirror(cvLabel)

\* C27: swapping the Pace aggregate with the Spin aggregate mirrors the
\* label when the match count or a zero wicket count decides it.  When the
\* ratio decides it, a Spin Friendly venue becomes Pace Friendly unless
\* spin conceded no run (then the swapped call fails), a Pace Friendly
\* venue becomes Spin Friendly or Neutral, and a Neutral venue stays
\* Neutral or becomes Pace Friendly: the band 0.85..1.15 is not its own
\* reciprocal.
C27_MirrorUpToBand ==
    cvLabel \in VenueLabels =>
        /\ DecidedByCounts => SwappedLabel = Mirror(cvLabel)
        /\ cvLabel = "Spin Friendly" =>
              SwappedLabel = IF cvArgs.spin_runs = 0 /\ ~DecidedByCounts
                             THEN ZeroDivisionError ELSE "Pace Friendly"
        /\ cvLabel = "Pace Friendly" => SwappedLabel \in {"Spin Friendly", "Neutral"}
        /\ cvLabel = "Neutral" => SwappedLabel \in {"Neutral", "Pace Friendly"}

\* A venue that is Neutral (ratio 18/21) and Pace Friendly when swapped
\* (ratio 21/18).
C27_Witness ==
    /\ cvLabel = "Neutral"
    /\ ~DecidedByCounts
    /\ SwappedLabel = "Pace Friendly"
    /\ cvArgs.spin_runs = 18 /\ cvArgs.pace_runs = 21
    /\ cvArgs.spin_wickets = cvArgs.pace_wickets

\* What is done to each row of a dataset to get another one.
Changes == {"keep", "drop", "six"}

RECURSIVE Varied(_, _, _)
Varied(rows, change, i) ==
    IF i > Len(rows) THEN << >>
    ELSE (IF change[i] = "drop" THEN << >>
          ELSE IF change[i] = "six"
               THEN <<[rows[i] EXCEPT !.Batter_Runs = IntStr(6), !.Extras_Type = "N/A"]>>
               ELSE <<rows[i]>>)
         \o Varied(rows, change, i + 1)

\* The innings of the batter of key that sort strictly before the match of
\* key by (date, match id), as (date, match id, runs, balls).
EarlierInnings(stats, key) ==
    {<<stats[k].date, k[1], stats[k].runs, stats[k].balls>> :
        k \in {x \in DOMAIN stats :
                  /\ x[2] = key[2]
                  /\ KeyLess(<<stats[x].date, x[1]>>, <<stats[key].date, key[1]>>)}}

\* The two runs agree on the earlier innings of key and give it the same
\* value.
SameValue(one, other, key) ==
    EarlierInnings(one.innings, key) = EarlierInnings(other.innings, key)
        => one.last5[key] = other.last5[key]

\* C28: the recent-form value of a (match, batter) pair depends only on
\* that batter's innings that sort strictly before the match by (date,
\* match id): for two datasets that agree on all such innings the value is
\* the same, so adding, removing or changing deliveries of the current
\* match, of a later match or of another batter does not change it.
C28_ValueFromEarlierInningsOnly ==
    FormComputed =>
        \A change \in [1..Len(input_file.rows) -> Changes] :
            \E other \in {FormOf(Varied(input_file.rows, change, 1))} :
                \A key \in DOMAIN last5_sr \cap DOMAIN other.last5 :
                    SameValue([innings |-> innings_stats.val, last5 |-> last5_sr],
                              other, key)

\* A's innings in match 9 comes after two earlier innings; with its own
\* delivery changed to a six and B's delivery removed its value is the
\* same and not zero.
C28_Witness ==
    /\ FormComputed
    /\ input_file.rows[1].File = IntStr(9)
    /\ input_file.rows[1].Batter_Runs = IntStr(6)
    /\ Len(input_file.rows) = 5
    /\ \E other \in {FormOf(Varied(input_file.rows,
                                   <<"six", "drop", "keep", "keep", "keep">>, 1))} :
          /\ other.innings[<<IntStr(9), "A">>].balls = 1
          /\ <<IntStr(9), "B">> \notin DOMAIN other.last5
          /\ Cardinality(EarlierInnings(other.innings, <<IntStr(9), "A">>)) = 2
          /\ other.last5[<<IntStr(9), "A">>] = last5_sr[<<IntStr(9), "A">>]
          /\ last5_sr[<<IntStr(9), "A">>] # FZero

\* A step of analyze_venues or of the recent-form script other than the
\* replacement of the dataset file.
BeforeReplace ==
    \/ venues_pc # "idle" /\ venues_pc' # "done"
    \/ form_pc # "idle" /\ form_pc' # "done"

\* The step that replaces the dataset file: every row of the dataset has
\* been written to the temporary file, which becomes the dataset file.
ReplacesWhenComplete ==
    /\ temp_file # NoFile
    /\ Len(temp_file.rows) = Len(input_file.rows)
    /\ input_file' = temp_file
    /\ temp_file' = NoFile

EnrichmentRunning ==
    /\ runrate_pc = "idle"
    /\ venues_pc \notin {"idle", "done"} \/ form_pc \notin {"idle", "done"}

\* C29: in venue enrichment and recent-form enrichment the dataset file is
\* replaced in one step, and only after every output row has been written
\* to the temporary file; until that step (while reading, aggregating,
\* classifying or writing, or if the run stops there) the dataset file
\* holds exactly its original content.
C29_ReplacedOnceComplete ==
    [][/\ EnrichmentRunning /\ BeforeReplace => input_file' = input_file
       /\ EnrichmentRunning /\ ~BeforeReplace => ReplacesWhenComplete]_vars

\* The rows are all in the temporary file, with the new column, and the
\* dataset file still has its original header.
C29_Witness ==
    /\ venues_pc = "write"
    /\ temp_file # NoFile
    /\ Len(temp_file.rows) = Len(input_file.rows)
    /\ Len(input_file.rows) = MaxDeliveries
    /\ venue_field \in Range(temp_file.fieldnames)
    /\ venue_field \notin Range(input_file.fieldnames)

\* C30: given an empty candidate list and an otherwise valid scenario, the
\* scorer returns an empty ranking (no entries, no ranks) rather than
\* failing.
C30_EmptyLineupEmptyRanking ==
    \A r \in Requests :
        /\ scorer_pc[r] = "done"
        /\ ValidBody(request[r])
        /\ Len(request[r].available_batters) = 0
        => response[r] = [value |-> << >>]

====
